---- MODULE Spec2Model ----
(***************************************************************************)
(* A model of the lsql execution engine (src/src/fs.rs) and of its        *)
(* condition evaluator (src/src/filter.rs).                                *)
(*                                                                         *)
(* Strings are sequences of one-character strings, so that the byte-wise   *)
(* comparison, the prefix test and the substring test of the code are      *)
(* computed and not assumed.  The texts of the deletion messages are kept  *)
(* as single elements of such a sequence.                                  *)
(*                                                                         *)
(* The filesystem is a set of existing nodes of a fixed tree.  Every       *)
(* removal of an existing node is permitted: the only failures of a        *)
(* removal are a missing path and a non-empty directory.                   *)
(***************************************************************************)
EXTENDS Integers, Sequences, FiniteSets, TLC

(***************************************************************************)
(* Bounds of the model.                                                    *)
(***************************************************************************)
MaxLimit == 3
MaxLeaves == 3
MaxSortLen == 3

(***************************************************************************)
(* Strings.                                                                *)
(***************************************************************************)
\* the byte value of a character
CharCode ==
    [c \in {"(", "*", ".", "/", "?", "a", "b", "c", "d", "e", "f", "i",
            "l", "n", "o", "r", "t", "w", "x", "y"} |->
        CASE c = "(" -> 40
          [] c = "*" -> 42
          [] c = "." -> 46
          [] c = "/" -> 47
          [] c = "?" -> 63
          [] c = "a" -> 97
          [] c = "b" -> 98
          [] c = "c" -> 99
          [] c = "d" -> 100
          [] c = "e" -> 101
          [] c = "f" -> 102
          [] c = "i" -> 105
          [] c = "l" -> 108
          [] c = "n" -> 110
          [] c = "o" -> 111
          [] c = "r" -> 114
          [] c = "t" -> 116
          [] c = "w" -> 119
          [] c = "x" -> 120
          [] c = "y" -> 121]

\* std::cmp::Ordering as -1 (Less), 0 (Equal), 1 (Greater)
Reverse(o) == 0 - o

IntCmp(a, b) == IF a < b THEN -1 ELSE IF a > b THEN 1 ELSE 0

RECURSIVE StrCmpFrom(_, _, _)
StrCmpFrom(a, b, i) ==
    IF i > Len(a) /\ i > Len(b) THEN 0
    ELSE IF i > Len(a) THEN -1
    ELSE IF i > Len(b) THEN 1
    ELSE IF CharCode[a[i]] < CharCode[b[i]] THEN -1
    ELSE IF CharCode[a[i]] > CharCode[b[i]] THEN 1
    ELSE StrCmpFrom(a, b, i + 1)

\* str::cmp: byte-wise lexicographic order
compare_strings(a, b) == StrCmpFrom(a, b, 1)

compare_numbers(a, b) == IntCmp(a, b)

compare_dates(a, b) == IntCmp(a, b)

\* bool::cmp: false < true
compare_bools(a, b) == IntCmp(IF a THEN 1 ELSE 0, IF b THEN 1 ELSE 0)

\* Option<String> as [some, val]; None sorts before every Some
None == [some |-> FALSE, val |-> <<>>]
Some(v) == [some |-> TRUE, val |-> v]

compare_options(a, b) ==
    IF a.some /\ b.some THEN compare_strings(a.val, b.val)
    ELSE IF a.some THEN 1
    ELSE IF b.some THEN -1
    ELSE 0

\* str::contains
StrContains(field, s) ==
    \E i \in 1..(Len(field) + 1) :
        /\ i + Len(s) - 1 <= Len(field)
        /\ SubSeq(field, i, i + Len(s) - 1) = s

\* str::starts_with
StartsWith(s, c) == Len(s) >= 1 /\ s[1] = c

IsDigit(c) == c \in {"0", "1", "2", "3", "4", "5", "6", "7", "8", "9"}

RECURSIVE DigitsValue(_, _)
\* the value of a text of digits
DigitsValue(text, acc) ==
    IF text = <<>> THEN acc
    ELSE LET digit == CHOOSE d \in 0..9 :
                          <<"0", "1", "2", "3", "4", "5", "6", "7", "8",
                            "9">>[d + 1] = Head(text)
         IN  DigitsValue(Tail(text), acc * 10 + digit)

(***************************************************************************)
(* The filesystem: a fixed tree of nodes, of which `fs` holds the ones     *)
(* that exist.  Node 1 is /r.                                              *)
(*   /r  /r/b  /r/a.t  /r/c  /r/b/a.t  /r/b/d  /r/b/d/e                    *)
(***************************************************************************)
Nodes == 1..7

Parent == <<0, 1, 1, 1, 2, 2, 6>>

NodeName == << <<"r">>, <<"b">>, <<"a", ".", "t">>, <<"c">>,
               <<"a", ".", "t">>, <<"d">>, <<"e">> >>

NodeKind == <<"dir", "dir", "file", "dir", "file", "dir", "file">>

NodeSize == <<0, 0, 2, 0, 1, 0, 2>>

NodeModified == <<5, 4, 3, 4, 1, 2, 3>>

NodeCreated == <<1, 1, 2, 3, 1, 2, 2>>

NodeReadonly == <<FALSE, FALSE, TRUE, FALSE, FALSE, FALSE, FALSE>>

RECURSIVE PathOf(_)
PathOf(n) ==
    IF Parent[n] = 0 THEN <<"/">> \o NodeName[n]
    ELSE PathOf(Parent[n]) \o <<"/">> \o NodeName[n]

RECURSIVE IsAncestor(_, _)
\* a is a proper ancestor of n in the tree
IsAncestor(a, n) ==
    IF Parent[n] = 0 THEN FALSE
    ELSE Parent[n] = a \/ IsAncestor(a, Parent[n])

Subtree(n) == {n} \cup {m \in Nodes : IsAncestor(n, m)}

\* the node a path names
Lookup(p) == CHOOSE n \in Nodes : PathOf(n) = p

(***************************************************************************)
(* FSEntry::from_dir_entry                                                 *)
(***************************************************************************)
RECURSIVE LastDot(_, _)
LastDot(name, i) ==
    IF i = 0 THEN 0
    ELSE IF name[i] = "." THEN i
    ELSE LastDot(name, i - 1)

\* Path::extension: the part after the last dot of the file name; none when
\* there is no dot or the only dot starts the name
Extension(name) ==
    LET d == LastDot(name, Len(name))
    IN  IF d <= 1 THEN None ELSE Some(SubSeq(name, d + 1, Len(name)))

format_permissions(readonly) ==
    IF readonly THEN <<"r", "e", "a", "d", "o", "n", "l", "y">>
    ELSE <<"r", "e", "a", "d", "w", "r", "i", "t", "e">>

from_dir_entry(n) ==
    [name |-> NodeName[n],
     path |-> PathOf(n),
     size |-> NodeSize[n],
     is_dir |-> NodeKind[n] = "dir",
     is_file |-> NodeKind[n] = "file",
     is_hidden |-> StartsWith(NodeName[n], "."),
     modified |-> NodeModified[n],
     created |-> NodeCreated[n],
     extension |-> Extension(NodeName[n]),
     permissions |-> format_permissions(NodeReadonly[n])]

(***************************************************************************)
(* Values, conditions (src/src/parser/types.rs)                            *)
(***************************************************************************)
\* an f64 is the fraction n / d, d being 1 or 2; unit is the String of a
\* SizedNumber
VString(s) ==
    [kind |-> "String", s |-> s, n |-> 0, d |-> 1, unit |-> <<>>,
     b |-> FALSE]
VFraction(n, d) ==
    [kind |-> "Number", s |-> <<>>, n |-> n, d |-> d, unit |-> <<>>,
     b |-> FALSE]
VNumber(n) == VFraction(n, 1)
VSizedNumber(n, d, unit) ==
    [kind |-> "SizedNumber", s |-> <<>>, n |-> n, d |-> d, unit |-> unit,
     b |-> FALSE]
VBool(b) ==
    [kind |-> "Bool", s |-> <<>>, n |-> 0, d |-> 1, unit |-> <<>>, b |-> b]

Leaf(identifier, operator, value) ==
    [tag |-> "Leaf", identifier |-> identifier, operator |-> operator,
     value |-> value]

Branch(left, operator, right) ==
    [tag |-> "Branch", left |-> left, operator |-> operator, right |-> right]

\* Option<ConditionNode>::None
NoCondition == [tag |-> "None"]

(***************************************************************************)
(* ConditionMatcher for FSEntry (src/src/filter.rs)                        *)
(***************************************************************************)
\* s.replace("*", ".*").replace("?", "."): the regex source as a sequence of
\* atoms, "any" for a dot, "many" for dot-star, or the character itself
RECURSIVE GlobAtoms(_)
GlobAtoms(s) ==
    IF s = <<>> THEN <<>>
    ELSE LET c == Head(s)
         IN  (IF c = "*" THEN <<"many">>
              ELSE IF c = "?" \/ c = "." THEN <<"any">>
              ELSE <<c>>) \o GlobAtoms(Tail(s))

\* Regex::new fails on an unbalanced group
RegexCompiles(s) == \A i \in 1..Len(s) : s[i] # "("

RECURSIVE RegexMatch(_, _)
\* the atoms match the whole of field (the regex is anchored at both ends)
RegexMatch(atoms, field) ==
    IF atoms = <<>> THEN field = <<>>
    ELSE LET a == Head(atoms)
         IN  IF a = "many"
             THEN \E k \in 0..Len(field) :
                      RegexMatch(Tail(atoms), SubSeq(field, k + 1, Len(field)))
             ELSE /\ field # <<>>
                  /\ (a = "any" \/ a = Head(field))
                  /\ RegexMatch(Tail(atoms), Tail(field))

LikeMatch(field, s) ==
    IF RegexCompiles(s) THEN RegexMatch(GlobAtoms(s), field)
    ELSE field = <<>>       \* the fallback regex "^$"

\* a variant that orders strings by their text
compare_string_field_Ordered(field, operator, value) ==
    IF value.kind = "String"
    THEN CASE operator = "Equal" -> field = value.s
           [] operator = "NotEqual" -> field # value.s
           [] operator = "Like" -> LikeMatch(field, value.s)
           [] operator = "Contains" -> StrContains(field, value.s)
           [] operator = "LessThan" -> compare_strings(field, value.s) < 0
           [] operator = "GreaterThan" -> compare_strings(field, value.s) > 0
           [] OTHER -> FALSE
    ELSE FALSE

compare_string_field(field, operator, value) ==
    IF value.kind = "String"
    THEN CASE operator = "Equal" -> field = value.s
           [] operator = "NotEqual" -> field # value.s
           [] operator = "Like" -> LikeMatch(field, value.s)
           [] operator = "Contains" -> StrContains(field, value.s)
           [] OTHER -> FALSE
    ELSE FALSE

\* char::to_lowercase on the letters of a unit
LowerChar(c) ==
    CASE c = "A" -> "a"
      [] c = "B" -> "b"
      [] c = "C" -> "c"
      [] c = "D" -> "d"
      [] c = "E" -> "e"
      [] c = "G" -> "g"
      [] c = "K" -> "k"
      [] c = "M" -> "m"
      [] c = "N" -> "n"
      [] c = "O" -> "o"
      [] c = "R" -> "r"
      [] c = "S" -> "s"
      [] c = "T" -> "t"
      [] OTHER -> c

\* str::to_lowercase
to_lowercase(s) == [i \in 1..Len(s) |-> LowerChar(s[i])]

\* the number of factors 1024.0 in the arm of convert_to_bytes
UnitFactors(unit) ==
    CASE unit = <<"b">> -> 0
      [] unit = <<"k", "b">> -> 1
      [] unit = <<"m", "b">> -> 2
      [] unit = <<"g", "b">> -> 3
      [] unit = <<"t", "b">> -> 4
      [] OTHER -> 0      \* the unknown unit: the raw value

\* a variant that matches the unit as it is written
convert_to_bytes_CaseSensitive(n, d, unit) ==
    LET e == UnitFactors(unit)
    IN  IF d = 2 /\ e >= 1 THEN [m |-> n * 512, d |-> 1, e |-> e - 1]
        ELSE [m |-> n, d |-> d, e |-> e]

\* convert_to_bytes: the f64 (m / d) * 1024^e, which the products of the
\* code give exactly; half a unit of 1024 is 512 of the unit below
convert_to_bytes(n, d, unit) ==
    LET e == UnitFactors(to_lowercase(unit))
    IN  IF d = 2 /\ e >= 1 THEN [m |-> n * 512, d |-> 1, e |-> e - 1]
        ELSE [m |-> n, d |-> d, e |-> e]

RECURSIVE CmpBytes(_, _)
\* the sign of size as f64 - bytes, by division so that no product leaves
\* the integers of the checker
CmpBytes(size, bytes) ==
    IF bytes.e = 0
    THEN LET q == bytes.m \div bytes.d
         IN  IF size # q THEN IntCmp(size, q)
             ELSE IF bytes.m % bytes.d # 0 THEN 0 - 1
             ELSE 0
    ELSE LET c == CmpBytes(size \div 1024,
                           [m |-> bytes.m, d |-> bytes.d, e |-> bytes.e - 1])
         IN  IF c # 0 THEN c
             ELSE IF size % 1024 # 0 THEN 1
             ELSE 0

\* the match on the operator in both arms of compare_size_field: the
\* numbers here are multiples of a half, for which
\* |size - n| < f64::EPSILON is size = n
SizeCompare(size, operator, bytes) ==
    LET c == CmpBytes(size, bytes)
    IN  CASE operator = "Equal" -> c = 0
          [] operator = "NotEqual" -> c # 0
          [] operator = "LessThan" -> c < 0
          [] operator = "LessOrEqual" -> c <= 0
          [] operator = "GreaterThan" -> c > 0
          [] operator = "GreaterOrEqual" -> c >= 0
          [] OTHER -> FALSE

compare_size_field(size, operator, value) ==
    CASE value.kind = "Number" ->
            SizeCompare(size, operator,
                        [m |-> value.n, d |-> value.d, e |-> 0])
      [] value.kind = "SizedNumber" ->
            SizeCompare(size, operator,
                        convert_to_bytes(value.n, value.d, value.unit))
      [] OTHER -> FALSE

BoolCompare(field, operator, value) ==
    IF value.kind = "Bool"
    THEN CASE operator = "Equal" -> field = value.b
           [] operator = "NotEqual" -> field # value.b
           [] OTHER -> FALSE
    ELSE FALSE

\* a variant that names the kinds the other way round
TypeCompare_Swapped(is_dir, operator, value) ==
    IF value.kind = "String"
    THEN LET type_str == IF is_dir THEN <<"f", "i", "l", "e">>
                         ELSE <<"d", "i", "r">>
         IN  CASE operator = "Equal" -> type_str = value.s
               [] operator = "NotEqual" -> type_str # value.s
               [] operator = "Like" -> StrContains(type_str, value.s)
               [] operator = "Contains" -> StrContains(type_str, value.s)
               [] OTHER -> FALSE
    ELSE FALSE

TypeCompare(is_dir, operator, value) ==
    IF value.kind = "String"
    THEN LET type_str == IF is_dir THEN <<"d", "i", "r">>
                         ELSE <<"f", "i", "l", "e">>
         IN  CASE operator = "Equal" -> type_str = value.s
               [] operator = "NotEqual" -> type_str # value.s
               [] operator = "Like" -> StrContains(type_str, value.s)
               [] operator = "Contains" -> StrContains(type_str, value.s)
               [] OTHER -> FALSE
    ELSE FALSE

\* A DateTime<Local> is a count of hours since 1970-01-01 00:00 of the
\* local zone, which has a fixed offset: date_naive() of t is the day
\* t \div 24.
\* NaiveDateTime::parse_from_str(s + " 00:00:00", "%Y-%m-%d %H:%M:%S") and
\* Local.from_local_datetime(..).single(): the midnight that starts the day
\* s names, or none when s is not a date of the calendar
parse_date(s) ==
    LET dashes == {i \in 1..Len(s) : s[i] = "-"}
        first == CHOOSE i \in dashes : \A j \in dashes : i <= j
        last == CHOOSE i \in dashes : \A j \in dashes : j <= i
        ys == SubSeq(s, 1, first - 1)
        ms == SubSeq(s, first + 1, last - 1)
        ds == SubSeq(s, last + 1, Len(s))
        Digits(t) == t # <<>> /\ \A i \in 1..Len(t) : IsDigit(t[i])
        y == DigitsValue(ys, 0)
        m == DigitsValue(ms, 0)
        d == DigitsValue(ds, 0)
        leap == (y % 4 = 0 /\ y % 100 # 0) \/ y % 400 = 0
        DaysIn(k) == IF k = 2 THEN (IF leap THEN 29 ELSE 28)
                     ELSE IF k \in {4, 6, 9, 11} THEN 30
                     ELSE 31
        DaysBefore[k \in 1..12] ==
            IF k = 1 THEN 0 ELSE DaysBefore[k - 1] + DaysIn(k - 1)
        LeapsTo(year) == (year \div 4) - (year \div 100) + (year \div 400)
        days == 365 * (y - 1970) + LeapsTo(y - 1) - LeapsTo(1969)
                + DaysBefore[m] + d - 1
    IN  IF /\ Cardinality(dashes) = 2
           /\ Digits(ys) /\ Len(ys) <= 4
           /\ Digits(ms) /\ Len(ms) <= 2
           /\ Digits(ds) /\ Len(ds) <= 2
           /\ m \in 1..12
           /\ d \in 1..DaysIn(m)
        THEN Some(days * 24)
        ELSE None

compare_date_field(date, operator, value) ==
    IF value.kind = "String"
    THEN LET naive_date == parse_date(value.s)
         IN  IF naive_date.some
             THEN LET compare_date == naive_date.val
                  IN  CASE operator = "Equal" ->
                              date \div 24 = compare_date \div 24
                        [] operator = "NotEqual" ->
                              date \div 24 # compare_date \div 24
                        [] operator = "LessThan" -> date < compare_date
                        [] operator = "LessOrEqual" -> date <= compare_date
                        [] operator = "GreaterThan" -> date > compare_date
                        [] operator = "GreaterOrEqual" -> date >= compare_date
                        [] OTHER -> FALSE
             ELSE FALSE
    ELSE FALSE

\* a variant that takes an absent extension for the empty string
evaluate_single_condition_NoneIsEmpty(self, identifier, operator, value) ==
    CASE identifier = "name" ->
            compare_string_field(self.name, operator, value)
      [] identifier = "path" ->
            compare_string_field(self.path, operator, value)
      [] identifier = "ext" ->
            compare_string_field(self.extension.val, operator, value)
      [] identifier = "size" ->
            compare_size_field(self.size, operator, value)
      [] identifier = "modified" ->
            compare_date_field(self.modified, operator, value)
      [] identifier = "created" ->
            compare_date_field(self.created, operator, value)
      [] identifier = "is_hidden" ->
            BoolCompare(self.is_hidden, operator, value)
      [] identifier = "is_readonly" ->
            BoolCompare(StrContains(self.permissions,
                                    format_permissions(TRUE)),
                        operator, value)
      [] identifier = "type" -> TypeCompare(self.is_dir, operator, value)
      [] OTHER -> FALSE

evaluate_single_condition(self, identifier, operator, value) ==
    CASE identifier = "name" ->
            compare_string_field(self.name, operator, value)
      [] identifier = "path" ->
            compare_string_field(self.path, operator, value)
      [] identifier = "ext" ->
            IF self.extension.some
            THEN compare_string_field(self.extension.val, operator, value)
            ELSE FALSE
      [] identifier = "size" ->
            compare_size_field(self.size, operator, value)
      [] identifier = "modified" ->
            compare_date_field(self.modified, operator, value)
      [] identifier = "created" ->
            compare_date_field(self.created, operator, value)
      [] identifier = "is_hidden" ->
            BoolCompare(self.is_hidden, operator, value)
      [] identifier = "is_readonly" ->
            BoolCompare(StrContains(self.permissions,
                                    format_permissions(TRUE)),
                        operator, value)
      [] identifier = "type" -> TypeCompare(self.is_dir, operator, value)
      [] OTHER -> FALSE

\* a variant that treats every operator as And
LogicalApply_AlwaysAnd(operator, left_result, right_result) ==
    left_result /\ right_result

\* LogicalOperator::And => left && right, LogicalOperator::Or => left || right
LogicalApply(operator, left_result, right_result) ==
    IF operator = "And" THEN left_result /\ right_result
    ELSE left_result \/ right_result

RECURSIVE evaluate_condition_node(_, _)
evaluate_condition_node(self, node) ==
    IF node.tag = "Leaf"
    THEN evaluate_single_condition(self, node.identifier, node.operator,
                                   node.value)
    ELSE LogicalApply(node.operator,
                      evaluate_condition_node(self, node.left),
                      evaluate_condition_node(self, node.right))

matches_condition(self, condition) ==
    IF condition.tag = "None" THEN TRUE
    ELSE evaluate_condition_node(self, condition)

RECURSIVE FilterSeq(_, _)
FilterSeq(entries, condition) ==
    IF entries = <<>> THEN <<>>
    ELSE (IF matches_condition(Head(entries), condition)
          THEN <<Head(entries)>> ELSE <<>>)
         \o FilterSeq(Tail(entries), condition)

filter_entries(entries, condition) ==
    IF condition.tag = "None" THEN entries
    ELSE FilterSeq(entries, condition)

(***************************************************************************)
(* list_entries (src/src/fs.rs)                                            *)
(***************************************************************************)
SelectAll == [tag |-> "All", fields |-> <<>>]
SelectFiles == [tag |-> "Files", fields |-> <<>>]
SelectDirectories == [tag |-> "Directories", fields |-> <<>>]
SelectFields(fields) == [tag |-> "Fields", fields |-> fields]

\* Option<u64>
NoLimit == [some |-> FALSE, val |-> 0]
SomeLimit(n) == [some |-> TRUE, val |-> n]

RECURSIVE ReadDirFrom(_, _, _)
\* the members of a set of nodes in the order the directory is read
ReadDirFrom(S, rd, acc) ==
    IF S = {} THEN acc
    ELSE LET n == IF rd = "asc"
                  THEN CHOOSE x \in S : \A y \in S : x <= y
                  ELSE CHOOSE x \in S : \A y \in S : x >= y
         IN  ReadDirFrom(S \ {n}, rd, Append(acc, n))

read_dir(f, rd, n) == ReadDirFrom({m \in f : Parent[m] = n}, rd, <<>>)

RECURSIVE WalkDir(_, _, _, _, _)
RECURSIVE WalkAll(_, _, _, _, _)
\* WalkDir::new(path) with max_depth(1) unless recursive: a directory is
\* yielded before its contents
WalkDir(f, rd, n, depth, recursive) ==
    <<[node |-> n, depth |-> depth]>>
    \o (IF NodeKind[n] = "dir" /\ (recursive \/ depth < 1)
        THEN WalkAll(f, rd, read_dir(f, rd, n), depth + 1, recursive)
        ELSE <<>>)

WalkAll(f, rd, ns, depth, recursive) ==
    IF ns = <<>> THEN <<>>
    ELSE WalkDir(f, rd, Head(ns), depth, recursive)
         \o WalkAll(f, rd, Tail(ns), depth, recursive)

PathExists(f, path) == \E n \in f : PathOf(n) = path

\* a walk of a missing path yields one error, which is logged
Walker(f, rd, path, recursive) ==
    IF PathExists(f, path) THEN WalkDir(f, rd, Lookup(path), 0, recursive)
    ELSE <<>>

\* the selection arm of list_entries
Include(selection) ==
    CASE selection.tag = "All" -> TRUE
      [] selection.tag = "Fields" -> TRUE

RECURSIVE Collect(_, _, _)
\* the loop over the walker
Collect(walker, selection, recursive) ==
    IF walker = <<>> THEN <<>>
    ELSE LET w == Head(walker)
         IN  (IF ~recursive /\ w.depth = 0 THEN <<>>
              ELSE IF Include(selection) THEN <<from_dir_entry(w.node)>>
              ELSE <<>>)
             \o Collect(Tail(walker), selection, recursive)

\* a variant that keeps one entry too many
ApplyLimit_OneMore(filtered_entries, limit) ==
    IF limit.some /\ Len(filtered_entries) > limit.val
    THEN SubSeq(filtered_entries, 1, limit.val + 1)
    ELSE filtered_entries

\* Vec::truncate under the length test of list_entries
ApplyLimit(filtered_entries, limit) ==
    IF limit.some /\ Len(filtered_entries) > limit.val
    THEN SubSeq(filtered_entries, 1, limit.val)
    ELSE filtered_entries

RECURSIVE TrimStart(_)
TrimStart(s) ==
    IF s # <<>> /\ Head(s) \in {" ", "\n"} THEN TrimStart(Tail(s)) ELSE s

RECURSIVE TrimEnd(_)
TrimEnd(s) ==
    IF s # <<>> /\ s[Len(s)] \in {" ", "\n"}
    THEN TrimEnd(SubSeq(s, 1, Len(s) - 1))
    ELSE s

\* str::trim
Trim(s) == TrimEnd(TrimStart(s))

\* std::env::current_dir() and dirs::home_dir() of the process
CurrentDir == PathOf(1)
HomeDir == PathOf(2)

\* whether normalize_path is Ok: its one Err is that of current_dir(), which
\* fails when the directory is gone; no arm looks at the path itself
normalize_path_ok(f, path_str) ==
    Trim(path_str) = <<".">> => PathExists(f, CurrentDir)

\* the PathBuf of normalize_path
normalize_path(path_str) ==
    LET trimmed == Trim(path_str)
    IN  IF trimmed = <<".">> THEN CurrentDir
        ELSE IF trimmed # <<>> /\ Head(trimmed) = "~"
             THEN HomeDir \o Tail(trimmed)
        ELSE trimmed

\* a variant that cuts the listing to the limit before it filters
list_entries_LimitFirst(f, rd, path, selection, condition, limit, recursive) ==
    filter_entries(ApplyLimit(Collect(Walker(f, rd, normalize_path(path),
                                             recursive),
                                      selection, recursive),
                              limit),
                   condition)

list_entries(f, rd, path, selection, condition, limit, recursive) ==
    ApplyLimit(filter_entries(Collect(Walker(f, rd, normalize_path(path),
                                             recursive),
                                      selection, recursive),
                              condition),
               limit)

(***************************************************************************)
(* sort_entries, execute_query (src/src/fs.rs)                             *)
(***************************************************************************)
OrderTerm(field, direction) == [field |-> field, direction |-> direction]

\* the match on term.field in the comparator of sort_entries
FieldOrdering(field, a, b) ==
    CASE field = "name" -> compare_strings(a.name, b.name)
      [] field = "path" -> compare_strings(a.path, b.path)
      [] field = "size" -> compare_numbers(a.size, b.size)
      [] field = "modified" -> compare_dates(a.modified, b.modified)
      [] field = "created" -> compare_dates(a.created, b.created)
      [] field = "ext" -> compare_options(a.extension, b.extension)
      [] field = "permissions" -> compare_strings(a.permissions, b.permissions)
      [] field = "is_hidden" -> compare_bools(a.is_hidden, b.is_hidden)
      [] field = "is_readonly" -> compare_strings(a.permissions, b.permissions)
      [] OTHER -> 0

\* a variant that never reverses
TermOrdering_NoReverse(term, a, b) == FieldOrdering(term.field, a, b)

\* a non-equal term is returned, reversed unless the term is ascending
TermOrdering(term, a, b) ==
    LET ordering == FieldOrdering(term.field, a, b)
    IN  IF term.direction = "Ascending" THEN ordering ELSE Reverse(ordering)

RECURSIVE SortCmp(_, _, _)
\* the closure handed to sort_by
SortCmp(order_by, a, b) ==
    IF order_by = <<>> THEN 0
    ELSE IF FieldOrdering(Head(order_by).field, a, b) # 0
         THEN TermOrdering(Head(order_by), a, b)
         ELSE SortCmp(Tail(order_by), a, b)

RECURSIVE InsertTail_Unstable(_, _, _)
\* a variant that also moves the element past its equals
InsertTail_Unstable(sorted, x, order_by) ==
    IF sorted = <<>> THEN <<x>>
    ELSE IF SortCmp(order_by, x, sorted[Len(sorted)]) <= 0
         THEN Append(InsertTail_Unstable(SubSeq(sorted, 1, Len(sorted) - 1),
                                         x, order_by),
                     sorted[Len(sorted)])
         ELSE Append(sorted, x)

RECURSIVE InsertTail(_, _, _)
\* the element moves left while it is less than its left neighbour
InsertTail(sorted, x, order_by) ==
    IF sorted = <<>> THEN <<x>>
    ELSE IF SortCmp(order_by, x, sorted[Len(sorted)]) < 0
         THEN Append(InsertTail(SubSeq(sorted, 1, Len(sorted) - 1), x,
                                order_by),
                     sorted[Len(sorted)])
         ELSE Append(sorted, x)

RECURSIVE SortFrom(_, _, _)
SortFrom(sorted, rest, order_by) ==
    IF rest = <<>> THEN sorted
    ELSE SortFrom(InsertTail(sorted, Head(rest), order_by), Tail(rest),
                  order_by)

\* Vec::sort_by, a stable sort
sort_entries(entries, order_by) == SortFrom(<<>>, entries, order_by)

Query(query_type, selection, path, condition, limit, is_recursive, order_by) ==
    [query_type |-> query_type, selection |-> selection, path |-> path,
     condition |-> condition, limit |-> limit, is_recursive |-> is_recursive,
     order_by |-> order_by]

PathToSearch(query, path) == IF query.path = <<>> THEN path ELSE query.path

execute_query(f, rd, query, path, recursive) ==
    LET entries == list_entries(f, rd, PathToSearch(query, path),
                                query.selection, query.condition, query.limit,
                                recursive)
    IN  IF query.order_by # <<>> THEN sort_entries(entries, query.order_by)
        ELSE entries

(***************************************************************************)
(* The same calls where the platform can fail.  meta.unreadable holds the  *)
(* nodes whose fs::metadata fails, meta.unwalkable the directories whose   *)
(* contents the walker cannot read, meta.birthtime says whether the        *)
(* platform reports creation times, and meta.now is the hour Local::now()  *)
(* gives during the call.                                                  *)
(***************************************************************************)
\* from_dir_entry: Err when the metadata cannot be read; created is the
\* hour of the call when the metadata has no creation time
from_dir_entry_at(meta, n) ==
    IF n \in meta.unreadable
    THEN [ok |-> FALSE, entry |-> <<"Failed to read metadata">>]
    ELSE [ok |-> TRUE,
          entry |-> [from_dir_entry(n) EXCEPT
                        !.created = IF meta.birthtime THEN @ ELSE meta.now]]

RECURSIVE CollectAt_StopAtError(_, _, _, _)
\* a variant whose loop ends at the first entry that fails
CollectAt_StopAtError(meta, walker, selection, recursive) ==
    IF walker = <<>> THEN <<>>
    ELSE LET w == Head(walker)
             fs_entry == from_dir_entry_at(meta, w.node)
         IN  IF ~recursive /\ w.depth = 0
             THEN CollectAt_StopAtError(meta, Tail(walker), selection,
                                        recursive)
             ELSE IF ~fs_entry.ok THEN <<>>
             ELSE (IF Include(selection) THEN <<fs_entry.entry>> ELSE <<>>)
                  \o CollectAt_StopAtError(meta, Tail(walker), selection,
                                           recursive)

RECURSIVE CollectAt(_, _, _, _)
\* the loop over the walker: an entry that fails is logged and left out
CollectAt(meta, walker, selection, recursive) ==
    IF walker = <<>> THEN <<>>
    ELSE LET w == Head(walker)
             fs_entry == from_dir_entry_at(meta, w.node)
         IN  (IF ~recursive /\ w.depth = 0 THEN <<>>
              ELSE IF ~fs_entry.ok THEN <<>>
              ELSE IF Include(selection) THEN <<fs_entry.entry>>
              ELSE <<>>)
             \o CollectAt(meta, Tail(walker), selection, recursive)

\* the walker yields a directory it cannot read, then one error, which is
\* logged, and goes on after the directory: it sees nothing below it
list_entries_at(meta, f, rd, path, selection, condition, limit, recursive) ==
    LET seen == {n \in f : ~\E a \in meta.unwalkable : IsAncestor(a, n)}
    IN  ApplyLimit(filter_entries(CollectAt(meta,
                                            Walker(seen, rd,
                                                   normalize_path(path),
                                                   recursive),
                                            selection, recursive),
                                  condition),
                   limit)

execute_query_at(meta, f, rd, query, path, recursive) ==
    LET entries == list_entries_at(meta, f, rd, PathToSearch(query, path),
                                   query.selection, query.condition,
                                   query.limit, recursive)
    IN  IF query.order_by # <<>> THEN sort_entries(entries, query.order_by)
        ELSE entries

\* SearchContext::new
SearchContext(recursive) == [recursive |-> recursive]

\* the flag execute_delete_query hands to delete_entries, which walks and
\* removes by it
DeleteRecursive(query, context) ==
    IF query.query_type = "Delete"
    THEN query.is_recursive \/ context.recursive
    ELSE context.recursive

(***************************************************************************)
(* The query parser (src/src/parser).  Its input is the tree of pairs the  *)
(* grammar yields for a query text: a pair has a rule, the text it spans   *)
(* and its inner pairs.  The text of a field or an identifier is taken     *)
(* whole; any other text is a sequence of characters.                      *)
(***************************************************************************)
Pair(rule, text, inner) == [rule |-> rule, text |-> text, inner |-> inner]

\* str::parse::<u64>, on texts whose value a u64 holds
parse_u64(text) ==
    IF text # <<>> /\ \A i \in 1..Len(text) : IsDigit(text[i])
    THEN SomeLimit(DigitsValue(text, 0))
    ELSE NoLimit

RECURSIVE TakeWhileNumber(_)
\* chars().take_while(|c| c.is_ascii_digit() || *c == '.')
TakeWhileNumber(text) ==
    IF text # <<>> /\ (IsDigit(Head(text)) \/ Head(text) = ".")
    THEN <<Head(text)>> \o TakeWhileNumber(Tail(text))
    ELSE <<>>

RECURSIVE parse_limit(_)
parse_limit(pairs) ==
    IF pairs = <<>> THEN 100
    ELSE IF Head(pairs).rule = "number"
    THEN LET n == parse_u64(TakeWhileNumber(Head(pairs).text))
         IN  IF n.some THEN n.val ELSE 100
    ELSE parse_limit(Tail(pairs))

RECURSIVE parse_path(_)
parse_path(pairs) ==
    IF pairs = <<>> THEN <<".">>
    ELSE IF Head(pairs).rule = "path"
    THEN LET path_str == Head(pairs).text
         IN  IF /\ path_str # <<>>
                /\ Head(path_str) = "\""
                /\ path_str[Len(path_str)] = "\""
             THEN SubSeq(path_str, 2, Len(path_str) - 1)
             ELSE path_str
    ELSE parse_path(Tail(pairs))

\* the texts of a sequence of pairs
Texts(pairs) == [i \in 1..Len(pairs) |-> pairs[i].text]

RECURSIVE parse_selection(_)
\* selection.rs
parse_selection(pairs) ==
    IF pairs = <<>> THEN SelectAll
    ELSE LET selection_pair == Head(pairs)
             field_lists == SelectSeq(selection_pair.inner,
                                      LAMBDA p : p.rule = "field_list")
             fields == Texts(Head(field_lists).inner)
         IN  CASE selection_pair.rule = "selection" ->
                    IF selection_pair.text = <<"*">> THEN SelectAll
                    ELSE IF field_lists = <<>> THEN SelectAll
                    ELSE IF Len(fields) = 1 /\ fields[1] \in {"files", "f"}
                    THEN SelectFiles
                    ELSE IF /\ Len(fields) = 1
                            /\ fields[1] \in {"directories", "dirs", "d"}
                    THEN SelectDirectories
                    ELSE SelectFields(fields)
               [] selection_pair.rule = "recursive_flag" ->
                    IF Len(pairs) >= 2 THEN parse_selection(<<pairs[2]>>)
                    ELSE SelectAll
               [] OTHER -> SelectAll

\* the limit merge and the selection loop of parse_delete_selection
RECURSIVE DeleteSelectionInner(_, _)
DeleteSelectionInner(inner_pairs, acc) ==
    IF inner_pairs = <<>> THEN acc
    ELSE LET inner_pair == Head(inner_pairs)
             next ==
                 CASE inner_pair.rule = "FIRST" ->
                        [acc EXCEPT !.limit = SomeLimit(1)]
                   [] inner_pair.rule = "MANY" -> acc
                   [] inner_pair.rule = "number" ->
                        IF parse_u64(inner_pair.text).some
                        THEN [acc EXCEPT !.limit = parse_u64(inner_pair.text)]
                        ELSE acc
                   [] OTHER ->
                        IF inner_pair.text = <<"*">>
                        THEN [acc EXCEPT !.selection = SelectAll]
                        ELSE [acc EXCEPT !.selection =
                                  SelectFields(Texts(inner_pair.inner))]
         IN  DeleteSelectionInner(Tail(inner_pairs), next)

RECURSIVE DeleteSelectionFrom(_, _)
DeleteSelectionFrom(pairs, acc) ==
    IF pairs = <<>> THEN acc
    ELSE LET pair == Head(pairs)
             next ==
                 CASE pair.rule = "recursive_flag" -> acc
                   [] pair.rule = "delete_selection" ->
                        DeleteSelectionInner(pair.inner, acc)
                   [] pair.rule = "selection" ->
                        [acc EXCEPT !.selection = parse_selection(<<pair>>)]
                   [] OTHER -> acc
         IN  DeleteSelectionFrom(Tail(pairs), next)

\* (SelectionType, Option<u64>)
parse_delete_selection(pairs) ==
    DeleteSelectionFrom(pairs, [selection |-> SelectAll, limit |-> NoLimit])

\* str::parse::<f64> on the texts of the model: digits, or digits with one
\* decimal 0 or 5, the value being n / d; any other text is an Err here
parse_f64(text) ==
    IF parse_u64(text).some
    THEN [ok |-> TRUE, n |-> parse_u64(text).val, d |-> 1]
    ELSE IF /\ Len(text) >= 3
            /\ text[Len(text) - 1] = "."
            /\ text[Len(text)] \in {"0", "5"}
            /\ parse_u64(SubSeq(text, 1, Len(text) - 2)).some
    THEN LET whole == parse_u64(SubSeq(text, 1, Len(text) - 2)).val
         IN  IF text[Len(text)] = "5"
             THEN [ok |-> TRUE, n |-> 2 * whole + 1, d |-> 2]
             ELSE [ok |-> TRUE, n |-> whole, d |-> 1]
    ELSE [ok |-> FALSE, n |-> 0, d |-> 1]

\* value.rs; unit_start is the place s.find gives, the end of the digits
\* and dots
parse_value(pair) ==
    LET unit_start == Len(TakeWhileNumber(pair.text))
        num == parse_f64(SubSeq(pair.text, 1, unit_start))
    IN  CASE pair.rule = "string" ->
                VString(SubSeq(pair.text, 2, Len(pair.text) - 1))
          [] pair.rule = "number" ->
                IF unit_start < Len(pair.text)
                THEN IF num.ok
                     THEN VSizedNumber(num.n, num.d,
                                       SubSeq(pair.text, unit_start + 1,
                                              Len(pair.text)))
                     ELSE VNumber(0)
                ELSE IF num.ok THEN VFraction(num.n, num.d)
                ELSE VNumber(0)
          [] pair.rule = "bool" -> VBool(pair.text = <<"t", "r", "u", "e">>)
          [] OTHER -> VString(<<>>)

\* the match on op_pair.as_str() in parse_condition_node
LogicalOperatorOf(text) ==
    CASE text = <<"a", "n", "d">> -> "And"
      [] text = <<"o", "r">> -> "Or"
      [] OTHER -> "And"

\* the match on the rule of the operator in parse_primary_condition
ComparisonOperatorOf(rule) ==
    CASE rule = "EQUAL" -> "Equal"
      [] rule = "NOT_EQUAL" -> "NotEqual"
      [] rule = "LESS" -> "LessThan"
      [] rule = "LESS_OR_EQUAL" -> "LessOrEqual"
      [] rule = "GREATER" -> "GreaterThan"
      [] rule = "GREATER_OR_EQUAL" -> "GreaterOrEqual"
      [] rule = "LIKE" -> "Like"
      [] rule = "CONTAINS" -> "Contains"
      [] OTHER -> "Equal"

RECURSIVE parse_condition_node(_)
RECURSIVE parse_primary_condition(_)
RECURSIVE ConditionTail(_, _)

\* the while loop of parse_condition_node: an operator and the primary
\* after it, the tree growing to the left
ConditionTail(pairs, current_node) ==
    IF Len(pairs) < 2 THEN current_node
    ELSE ConditionTail(SubSeq(pairs, 3, Len(pairs)),
                       Branch(current_node,
                              LogicalOperatorOf(pairs[1].text),
                              parse_primary_condition(pairs[2].inner)))

\* defined on the pairs of a condition, which has a primary
parse_condition_node(pairs) ==
    ConditionTail(Tail(pairs), parse_primary_condition(Head(pairs).inner))

\* defined on the pairs of a primary: a condition or a comparison of an
\* identifier, an operator and a value
parse_primary_condition(pairs) ==
    LET pair == Head(pairs)
    IN  IF pair.rule = "condition" THEN parse_condition_node(pair.inner)
        ELSE Leaf(pair.inner[1].text,
                  ComparisonOperatorOf(pair.inner[2].inner[1].rule),
                  parse_value(pair.inner[3]))

parse_condition(pairs) == parse_condition_node(Head(pairs).inner)

RECURSIVE OrderTermFrom(_, _)
\* the loop of parse_order_term
OrderTermFrom(pairs, term) ==
    IF pairs = <<>> THEN term
    ELSE LET part == Head(pairs)
             next ==
                 CASE part.rule = "field" -> [term EXCEPT !.field = part.text]
                   [] part.rule = "order_direction" ->
                        [term EXCEPT !.direction =
                            IF to_lowercase(part.text) = <<"d", "e", "s", "c">>
                            THEN "Descending"
                            ELSE "Ascending"]
                   [] OTHER -> term
         IN  OrderTermFrom(Tail(pairs), next)

RECURSIVE parse_order_by(_)
parse_order_by(pairs) ==
    IF pairs = <<>> THEN <<>>
    ELSE (IF Head(pairs).rule = "order_term"
          THEN <<OrderTermFrom(Head(pairs).inner,
                               OrderTerm("", "Ascending"))>>
          ELSE <<>>) \o parse_order_by(Tail(pairs))

\* a variant in which a LIMIT clause replaces the limit of the selector
DeletePart_LimitClauseWins(query, delete_part) ==
    CASE delete_part.rule = "delete_clause" ->
            LET parsed == parse_delete_selection(delete_part.inner)
            IN  [query EXCEPT
                    !.is_recursive =
                        @ \/ \E i \in 1..Len(delete_part.inner) :
                                delete_part.inner[i].rule = "recursive_flag",
                    !.selection = parsed.selection,
                    !.limit = IF parsed.limit.some THEN parsed.limit ELSE @]
      [] delete_part.rule = "from_clause" ->
            [query EXCEPT !.path = parse_path(delete_part.inner)]
      [] delete_part.rule = "where_clause" ->
            [query EXCEPT !.condition = parse_condition(delete_part.inner)]
      [] delete_part.rule = "limit_clause" ->
            [query EXCEPT !.limit = SomeLimit(parse_limit(delete_part.inner))]
      [] OTHER -> query

\* one part of a delete_query in parse_query
DeletePart(query, delete_part) ==
    CASE delete_part.rule = "delete_clause" ->
            LET parsed == parse_delete_selection(delete_part.inner)
            IN  [query EXCEPT
                    !.is_recursive =
                        @ \/ \E i \in 1..Len(delete_part.inner) :
                                delete_part.inner[i].rule = "recursive_flag",
                    !.selection = parsed.selection,
                    !.limit = IF parsed.limit.some THEN parsed.limit ELSE @]
      [] delete_part.rule = "from_clause" ->
            [query EXCEPT !.path = parse_path(delete_part.inner)]
      [] delete_part.rule = "where_clause" ->
            [query EXCEPT !.condition = parse_condition(delete_part.inner)]
      [] delete_part.rule = "limit_clause" ->
            IF ~query.limit.some
            THEN [query EXCEPT
                     !.limit = SomeLimit(parse_limit(delete_part.inner))]
            ELSE query
      [] OTHER -> query

\* one part of a select_query in parse_query
SelectPart(query, select_part) ==
    CASE select_part.rule = "select_clause" ->
            [query EXCEPT !.selection = parse_selection(select_part.inner)]
      [] select_part.rule = "from_clause" ->
            [query EXCEPT !.path = parse_path(select_part.inner)]
      [] select_part.rule = "where_clause" ->
            [query EXCEPT !.condition = parse_condition(select_part.inner)]
      [] select_part.rule = "order_by_clause" ->
            [query EXCEPT !.order_by = parse_order_by(select_part.inner)]
      [] select_part.rule = "limit_clause" ->
            [query EXCEPT !.limit = SomeLimit(parse_limit(select_part.inner))]
      [] OTHER -> query

RECURSIVE DeleteParts(_, _)
DeleteParts(parts, query) ==
    IF parts = <<>> THEN query
    ELSE DeleteParts(Tail(parts), DeletePart(query, Head(parts)))

RECURSIVE SelectParts(_, _)
SelectParts(parts, query) ==
    IF parts = <<>> THEN query
    ELSE SelectParts(Tail(parts), SelectPart(query, Head(parts)))

RECURSIVE QueryFrom(_, _)
\* the loop of parse_query over the pairs of the query
QueryFrom(pairs, query) ==
    IF pairs = <<>> THEN query
    ELSE LET pair == Head(pairs)
             next ==
                 CASE pair.rule = "select_query" ->
                        SelectParts(pair.inner,
                                    [query EXCEPT !.query_type = "Select"])
                   [] pair.rule = "delete_query" ->
                        DeleteParts(pair.inner,
                                    [query EXCEPT !.query_type = "Delete"])
                   [] OTHER -> query
         IN  QueryFrom(Tail(pairs), next)

\* parse_query on the pairs of a text the grammar accepts
parse_query(pairs) ==
    QueryFrom(pairs,
              Query("Select", SelectAll, <<>>, NoCondition, NoLimit, FALSE,
                    <<>>))

\* a variant that takes a text the grammar rejects for the empty query
parse_query_str_Lenient(parsed) ==
    [ok |-> TRUE, query |-> parse_query(IF parsed.ok THEN parsed.pairs ELSE <<>>)]

\* parse_query on a text: parsed is what LSQLParser::parse gives for it,
\* the pairs of the text or the error of the grammar
parse_query_str(parsed) ==
    IF parsed.ok THEN [ok |-> TRUE, query |-> parse_query(parsed.pairs)]
    ELSE [ok |-> FALSE, err |-> <<"Parse error: ">> \o parsed.err]

(***************************************************************************)
(* delete_entries (src/src/fs.rs)                                          *)
(***************************************************************************)
IoOk == [ok |-> TRUE, kind |-> "", text |-> <<>>]
IoErr(kind, text) == [ok |-> FALSE, kind |-> kind, text |-> text]

DirNotEmptyText == <<"Directory not empty (use recursive flag to delete)">>

\* a variant that removes a directory with its contents whatever the flag
Remove_Contents(f, rd, entry, recursive) ==
    LET n == Lookup(entry.path)
    IN  IF n \in f
        THEN [res |-> IoOk,
              fs |-> IF entry.is_dir THEN f \ Subtree(n) ELSE f \ {n}]
        ELSE [res |-> IoErr("NotFound", <<"entity not found">>), fs |-> f]

\* a variant whose recursive removal takes the directory alone
Remove_Shallow(f, rd, entry, recursive) ==
    LET n == Lookup(entry.path)
    IN  IF n \in f
        THEN IF entry.is_dir /\ ~recursive /\ read_dir(f, rd, n) # <<>>
             THEN [res |-> IoErr("Other", DirNotEmptyText), fs |-> f]
             ELSE [res |-> IoOk, fs |-> f \ {n}]
        ELSE [res |-> IoErr("NotFound", <<"entity not found">>), fs |-> f]

\* the removal of one candidate: the result and the filesystem after it
Remove(f, rd, entry, recursive) ==
    LET n == Lookup(entry.path)
    IN  IF entry.is_dir
        THEN IF recursive
             THEN \* remove_dir_all
                  IF n \in f THEN [res |-> IoOk, fs |-> f \ Subtree(n)]
                  ELSE [res |-> IoErr("NotFound", <<"entity not found">>),
                        fs |-> f]
             ELSE \* read_dir, then remove_dir of an empty directory
                  IF n \notin f
                  THEN [res |-> IoErr("NotFound", <<"entity not found">>),
                        fs |-> f]
                  ELSE IF read_dir(f, rd, n) = <<>>
                  THEN [res |-> IoOk, fs |-> f \ {n}]
                  ELSE [res |-> IoErr("Other", DirNotEmptyText), fs |-> f]
        ELSE \* remove_file
             IF n \in f THEN [res |-> IoOk, fs |-> f \ {n}]
             ELSE [res |-> IoErr("NotFound", <<"entity not found">>),
                   fs |-> f]

\* the message for the kind of the error
ErrorMsg(e, path) ==
    CASE e.kind = "PermissionDenied" -> <<"Permission denied: ">> \o path
      [] e.kind = "NotFound" -> <<"No such file or directory: ">> \o path
      [] e.kind = "DirectoryNotEmpty" ->
            <<"Directory not empty (use recursive flag to delete): ">> \o path
      [] OTHER -> <<"Failed to delete ">> \o path \o <<": ">> \o e.text

FailedEntry(entry, e) ==
    [entry EXCEPT !.name = entry.name \o <<" - ">> \o ErrorMsg(e, entry.path)]

\* a variant that forgets the dry run
ReturnsCandidates_NoDryRun(entries, dry_run) == entries = <<>>

\* the early returns of delete_entries: nothing to delete, or a dry run
ReturnsCandidates(entries, dry_run) == entries = <<>> \/ dry_run

(***************************************************************************)
(* The inputs of the calls.                                                *)
(***************************************************************************)
Paths == {PathOf(1), PathOf(2), <<".">>, <<"~", " ">>}

Selections == {SelectAll, SelectFields(<<"name">>)}

Limits == {NoLimit} \cup {SomeLimit(n) : n \in 0..MaxLimit}

QueryConditions ==
    {NoCondition,
     Leaf("name", "Equal", VString(<<"a", ".", "t">>)),
     Leaf("type", "Equal", VString(<<"d", "i", "r">>)),
     Leaf("size", "GreaterThan", VNumber(1)),
     Leaf("name", "NotEqual", VString(<<"r">>)),
     Branch(Leaf("name", "Equal", VString(<<"b">>)), "Or",
            Leaf("name", "Equal", VString(<<"d">>)))}

OrderBys ==
    {<<>>,
     <<OrderTerm("name", "Ascending")>>,
     <<OrderTerm("name", "Descending")>>,
     <<OrderTerm("size", "Descending"), OrderTerm("name", "Ascending")>>,
     <<OrderTerm("ext", "Ascending"), OrderTerm("modified", "Descending")>>,
     <<OrderTerm("is_dir", "Descending"), OrderTerm("name", "Ascending")>>}

AllEntries == {from_dir_entry(n) : n \in Nodes}

SortInputs == UNION {[1..k -> AllEntries] : k \in 0..MaxSortLen}

MatchLeaves ==
    {Leaf("type", "Equal", VString(<<"d", "i", "r">>)),
     Leaf("size", "GreaterThan", VNumber(1)),
     Leaf("name", "Contains", VString(<<"a">>))}

\* the condition trees with n leaves
CondsOfSize[n \in 1..MaxLeaves] ==
    IF n = 1 THEN MatchLeaves
    ELSE UNION {{Branch(l, o, r) : l \in CondsOfSize[k],
                                   o \in {"And", "Or"},
                                   r \in CondsOfSize[n - k]} :
                k \in 1..(n - 1)}

MatchConditions ==
    {NoCondition} \cup UNION {CondsOfSize[n] : n \in 1..MaxLeaves}

(***************************************************************************)
(* The state.                                                              *)
(***************************************************************************)
VARIABLES
    fs,                 \* the nodes that exist
    readdir,            \* the order in which a directory is read
    pc,                 \* "idle", "delete_loop" inside delete_entries, or
                        \* "returned" while the caller holds the result
    op,                 \* the last call
    args,               \* its arguments
    before,             \* the filesystem when it was called
    ret,                \* what it returned
    entries_to_delete,  \* locals of delete_entries
    next_entry,
    deleted_count,
    failed_entries

vars == <<fs, readdir, pc, op, args, before, ret, entries_to_delete,
          next_entry, deleted_count, failed_entries>>

locals == <<entries_to_delete, next_entry, deleted_count, failed_entries>>

NoLocals ==
    /\ entries_to_delete' = <<>>
    /\ next_entry' = 1
    /\ deleted_count' = 0
    /\ failed_entries' = <<>>

Init ==
    /\ fs = Nodes
    /\ readdir \in {"asc", "desc"}
    /\ pc = "idle"
    /\ op = "none"
    /\ args = <<>>
    /\ before = Nodes
    /\ ret = <<>>
    /\ entries_to_delete = <<>>
    /\ next_entry = 1
    /\ deleted_count = 0
    /\ failed_entries = <<>>

ListEntries(path, selection, condition, limit, recursive) ==
    /\ pc = "idle"
    /\ op' = "list_entries"
    /\ args' = [path |-> path, selection |-> selection,
                condition |-> condition, limit |-> limit,
                recursive |-> recursive]
    /\ before' = fs
    /\ ret' = [ok |-> normalize_path_ok(fs, path),
               entries |-> list_entries(fs, readdir, path, selection,
                                        condition, limit, recursive)]
    /\ pc' = "returned"
    /\ UNCHANGED <<fs, readdir, locals>>

ExecuteQuery(query, path, recursive) ==
    /\ pc = "idle"
    /\ op' = "execute_query"
    /\ args' = [query |-> query, path |-> path, recursive |-> recursive]
    /\ before' = fs
    /\ ret' = [ok |-> normalize_path_ok(fs, PathToSearch(query, path)),
               entries |-> execute_query(fs, readdir, query, path, recursive)]
    /\ pc' = "returned"
    /\ UNCHANGED <<fs, readdir, locals>>

\* delete_entries up to its loop
DeleteEntries(path, selection, condition, limit, recursive, dry_run) ==
    /\ pc = "idle"
    /\ op' = "delete_entries"
    /\ args' = [path |-> path, selection |-> selection,
                condition |-> condition, limit |-> limit,
                recursive |-> recursive, dry_run |-> dry_run]
    /\ before' = fs
    /\ LET entries == list_entries(fs, readdir, path, selection, condition,
                                   limit, recursive)
       IN  IF ReturnsCandidates(entries, dry_run)
           THEN /\ ret' = [ok |-> normalize_path_ok(fs, path),
                           failed |-> entries, deleted_count |-> 0]
                /\ pc' = "returned"
                /\ NoLocals
           ELSE /\ ret' = <<>>
                /\ pc' = "delete_loop"
                /\ entries_to_delete' = entries
                /\ next_entry' = 1
                /\ deleted_count' = 0
                /\ failed_entries' = <<>>
    /\ UNCHANGED <<fs, readdir>>

\* execute_delete_query up to the loop of delete_entries: args holds the
\* arguments it hands to delete_entries beside its own
ExecuteDeleteQuery(query, path, context, dry_run) ==
    /\ pc = "idle"
    /\ op' = "execute_delete_query"
    /\ args' = [path |-> PathToSearch(query, path),
                selection |-> query.selection,
                condition |-> query.condition, limit |-> query.limit,
                recursive |-> DeleteRecursive(query, context),
                dry_run |-> dry_run, query |-> query, context |-> context]
    /\ before' = fs
    /\ LET entries == list_entries(fs, readdir, PathToSearch(query, path),
                                   query.selection, query.condition,
                                   query.limit,
                                   DeleteRecursive(query, context))
       IN  IF ReturnsCandidates(entries, dry_run)
           THEN /\ ret' = [ok |-> normalize_path_ok(fs,
                                                    PathToSearch(query, path)),
                           failed |-> entries, deleted_count |-> 0]
                /\ pc' = "returned"
                /\ NoLocals
           ELSE /\ ret' = <<>>
                /\ pc' = "delete_loop"
                /\ entries_to_delete' = entries
                /\ next_entry' = 1
                /\ deleted_count' = 0
                /\ failed_entries' = <<>>
    /\ UNCHANGED <<fs, readdir>>

\* a variant whose loop ends at the first failure
DeleteStep_StopOnFailure ==
    /\ pc = "delete_loop"
    /\ next_entry <= Len(entries_to_delete)
    /\ LET entry == entries_to_delete[next_entry]
           r == Remove(fs, readdir, entry, args.recursive)
       IN  /\ fs' = r.fs
           /\ IF r.res.ok
              THEN /\ deleted_count' = deleted_count + 1
                   /\ next_entry' = next_entry + 1
                   /\ UNCHANGED failed_entries
              ELSE /\ failed_entries' =
                          Append(failed_entries, FailedEntry(entry, r.res))
                   /\ next_entry' = Len(entries_to_delete) + 1
                   /\ UNCHANGED deleted_count
    /\ UNCHANGED <<readdir, pc, op, args, before, ret, entries_to_delete>>

\* one pass of the loop of delete_entries
DeleteStep ==
    /\ pc = "delete_loop"
    /\ next_entry <= Len(entries_to_delete)
    /\ LET entry == entries_to_delete[next_entry]
           r == Remove(fs, readdir, entry, args.recursive)
       IN  /\ fs' = r.fs
           /\ IF r.res.ok
              THEN /\ deleted_count' = deleted_count + 1
                   /\ UNCHANGED failed_entries
              ELSE /\ failed_entries' =
                          Append(failed_entries, FailedEntry(entry, r.res))
                   /\ UNCHANGED deleted_count
    /\ next_entry' = next_entry + 1
    /\ UNCHANGED <<readdir, pc, op, args, before, ret, entries_to_delete>>

\* the return of delete_entries after its loop
DeleteReturn ==
    /\ pc = "delete_loop"
    /\ next_entry > Len(entries_to_delete)
    /\ ret' = [ok |-> TRUE, failed |-> failed_entries,
               deleted_count |-> deleted_count]
    /\ pc' = "returned"
    /\ NoLocals
    /\ UNCHANGED <<fs, readdir, op, args, before>>

\* the caller shows the result and drops it
Finish ==
    /\ pc = "returned"
    /\ pc' = "idle"
    /\ op' = "none"
    /\ args' = <<>>
    /\ before' = Nodes
    /\ ret' = <<>>
    /\ UNCHANGED <<fs, readdir, locals>>

Next ==
    \/ \E path \in Paths, selection \in Selections,
          condition \in QueryConditions, limit \in Limits,
          recursive \in BOOLEAN :
          ListEntries(path, selection, condition, limit, recursive)
    \/ \E path \in Paths, condition \in QueryConditions, limit \in Limits,
          order_by \in OrderBys, recursive \in BOOLEAN :
          ExecuteQuery(Query("Select", SelectAll, path, condition, limit,
                             FALSE, order_by),
                       path, recursive)
    \/ \E path \in Paths, condition \in QueryConditions, limit \in Limits,
          recursive \in BOOLEAN, dry_run \in BOOLEAN :
          DeleteEntries(path, SelectAll, condition, limit, recursive, dry_run)
    \/ \E path \in {PathOf(2), <<>>},
          condition \in {NoCondition,
                         Leaf("name", "Equal", VString(<<"a", ".", "t">>))},
          limit \in {NoLimit, SomeLimit(1)}, is_recursive \in BOOLEAN,
          recursive \in BOOLEAN, dry_run \in BOOLEAN :
          ExecuteDeleteQuery(Query("Delete", SelectAll, path, condition,
                                   limit, is_recursive, <<>>),
                             <<".">>, SearchContext(recursive), dry_run)
    \/ DeleteStep
    \/ DeleteReturn
    \/ Finish

Spec == Init /\ [][Next]_vars

(***************************************************************************)
(* sort_entries alone, on lists of entries.                                *)
(***************************************************************************)
InitSort ==
    /\ fs = Nodes
    /\ readdir = "asc"
    /\ pc = "idle"
    /\ op = "sort_input"
    /\ args \in [entries : SortInputs, order_by : OrderBys]
    /\ before = Nodes
    /\ ret = <<>>
    /\ entries_to_delete = <<>>
    /\ next_entry = 1
    /\ deleted_count = 0
    /\ failed_entries = <<>>

SortEntries ==
    /\ op = "sort_input"
    /\ op' = "sort_entries"
    /\ ret' = [entries |-> sort_entries(args.entries, args.order_by)]
    /\ UNCHANGED <<fs, readdir, pc, args, before, locals>>

\* sort_entries on the list it has sorted
SortAgain ==
    /\ op = "sort_entries"
    /\ op' = "sort_again"
    /\ ret' = [first |-> ret.entries,
               entries |-> sort_entries(ret.entries, args.order_by)]
    /\ UNCHANGED <<fs, readdir, pc, args, before, locals>>

NextSort == SortEntries \/ SortAgain

SpecSort == InitSort /\ [][NextSort]_vars

(***************************************************************************)
(* matches_condition alone, on one entry and one condition.                *)
(***************************************************************************)
InitMatch ==
    /\ fs = Nodes
    /\ readdir = "asc"
    /\ pc = "idle"
    /\ op = "match_input"
    /\ args \in [entry : AllEntries, condition : MatchConditions]
    /\ before = Nodes
    /\ ret = <<>>
    /\ entries_to_delete = <<>>
    /\ next_entry = 1
    /\ deleted_count = 0
    /\ failed_entries = <<>>

MatchesCondition ==
    /\ op = "match_input"
    /\ op' = "matches_condition"
    /\ ret' = [result |-> matches_condition(args.entry, args.condition)]
    /\ UNCHANGED <<fs, readdir, pc, args, before, locals>>

NextMatch == MatchesCondition

SpecMatch == InitMatch /\ [][NextMatch]_vars

(***************************************************************************)
(* The selection arm of list_entries alone, on one entry.                  *)
(***************************************************************************)
\* an entry whose metadata is neither a file's nor a directory's: a socket
\* or a named pipe
OtherEntry ==
    [name |-> <<"l">>, path |-> <<"/", "r", "/", "l">>, size |-> 0,
     is_dir |-> FALSE, is_file |-> FALSE, is_hidden |-> FALSE,
     modified |-> 2, created |-> 1, extension |-> None,
     permissions |-> format_permissions(FALSE)]

KindEntries == AllEntries \cup {OtherEntry}

\* `include` of list_entries: the match has an arm for All and one for
\* Fields and none for another selection, whose outcome the source leaves
\* open; the entry is looked at by no arm
IncludeEntry(selection, fs_entry, no_arm) ==
    IF selection.tag \in {"All", "Fields"} THEN Include(selection)
    ELSE no_arm

InitInclude ==
    /\ fs = Nodes
    /\ readdir = "asc"
    /\ pc = "idle"
    /\ op = "include_input"
    /\ args \in [entry : KindEntries,
                  selection : {SelectAll, SelectFiles, SelectDirectories,
                               SelectFields(<<"name">>),
                               SelectFields(<<"name", "size">>)},
                  no_arm : BOOLEAN]
    /\ before = Nodes
    /\ ret = <<>>
    /\ entries_to_delete = <<>>
    /\ next_entry = 1
    /\ deleted_count = 0
    /\ failed_entries = <<>>

IncludeStep ==
    /\ op = "include_input"
    /\ op' = "include"
    /\ ret' = [include |-> IncludeEntry(args.selection, args.entry,
                                        args.no_arm)]
    /\ UNCHANGED <<fs, readdir, pc, args, before, locals>>

NextInclude == IncludeStep

SpecInclude == InitInclude /\ [][NextInclude]_vars

(***************************************************************************)
(* evaluate_single_condition alone, on one entry and one leaf.             *)
(***************************************************************************)
\* a file of a given size
SizedEntry(size) ==
    [name |-> <<"x">>, path |-> <<"/", "r", "/", "x">>, size |-> size,
     is_dir |-> FALSE, is_file |-> TRUE, is_hidden |-> FALSE,
     modified |-> 2, created |-> 1, extension |-> None,
     permissions |-> format_permissions(FALSE)]

\* the entries of each kind, files of several sizes, files modified and
\* created at several hours around the midnight that starts 2024-01-02,
\* which is hour 473376, and files of several names
LeafEntries ==
    KindEntries
    \cup {SizedEntry(size) : size \in {512, 1024, 2048, 1048576, 1073741824}}
    \cup {[SizedEntry(512) EXCEPT !.modified = t, !.created = t - 24] :
             t \in {473375, 473376, 473386, 473400}}
    \cup {[SizedEntry(512) EXCEPT !.name = name,
                                  !.path = <<"/", "r", "/">> \o name,
                                  !.extension = Extension(name)] :
             name \in {<<"a", ".">>, <<"a", "(">>, <<"a", "x", "t">>}}

ComparisonOperators ==
    {"Equal", "NotEqual", "LessThan", "LessOrEqual", "GreaterThan",
     "GreaterOrEqual", "Like", "Contains"}

LeafConditions ==
    LET Units ==
            {<<"b">>, <<"B">>, <<"k", "b">>, <<"K", "B">>, <<"K", "b">>,
             <<"m", "b">>, <<"M", "B">>, <<"g", "b">>, <<"G", "b">>,
             <<"t", "b">>, <<"T", "B">>, <<"x", "b">>}
        SizeValues ==
            {VNumber(500), VNumber(1024), VNumber(2000), VFraction(1, 2),
             VSizedNumber(1, 2, <<"k", "b">>),
             VSizedNumber(2, 1, <<"k", "b">>), VSizedNumber(1, 2, <<"b">>),
             VSizedNumber(1024, 1, <<"x", "b">>),
             VSizedNumber(1, 2, <<"M", "B">>),
             VSizedNumber(0, 1, <<"t", "b">>), VString(<<"1">>),
             VBool(TRUE)}
            \cup {VSizedNumber(1, 1, unit) : unit \in Units}
        TypeValues ==
            {VString(<<"f", "i", "l", "e">>), VString(<<"d", "i", "r">>),
             VString(<<"i">>), VBool(TRUE)}
        ExtValues ==
            {VString(<<"t">>), VString(<<>>), VString(<<"*">>), VNumber(1),
             VBool(FALSE)}
        DateValues ==
            {VString(<<"2", "0", "2", "4", "-", "0", "1", "-", "0", "2">>),
             VString(<<"2", "0", "2", "4", "-", "0", "1", "-", "0", "1">>),
             VString(<<"2", "0", "2", "4", "-", "0", "2", "-", "3", "0">>),
             VString(<<"x">>), VNumber(1), VBool(TRUE)}
        StringValues ==
            {VString(<<"a", ".", "t">>), VString(<<"a", "*">>),
             VString(<<"?", ".", "t">>), VString(<<"a">>),
             VString(<<"/", "r", "/", "a", ".", "t">>), VString(<<"a", "(">>),
             VString(<<"r", "e", "a", "d", "*">>), VNumber(1), VBool(TRUE)}
        BoolValues == {VBool(TRUE), VBool(FALSE), VString(<<"t">>), VNumber(1)}
    IN  {Leaf("size", o, v) : o \in ComparisonOperators, v \in SizeValues}
        \cup {Leaf("type", o, v) : o \in ComparisonOperators,
                                   v \in TypeValues}
        \cup {Leaf("ext", o, v) : o \in ComparisonOperators, v \in ExtValues}
        \cup {Leaf(f, o, v) : f \in {"modified", "created"},
                              o \in ComparisonOperators, v \in DateValues}
        \cup {Leaf(f, o, v) : f \in {"name", "path", "ext", "permissions",
                                      "owner"},
                              o \in ComparisonOperators, v \in StringValues}
        \cup {Leaf(f, o, v) : f \in {"is_hidden", "is_readonly"},
                              o \in ComparisonOperators, v \in BoolValues}

InitLeaf ==
    /\ fs = Nodes
    /\ readdir = "asc"
    /\ pc = "idle"
    /\ op = "leaf_input"
    /\ args \in [entry : LeafEntries, condition : LeafConditions]
    /\ before = Nodes
    /\ ret = <<>>
    /\ entries_to_delete = <<>>
    /\ next_entry = 1
    /\ deleted_count = 0
    /\ failed_entries = <<>>

EvaluateSingleCondition ==
    /\ op = "leaf_input"
    /\ op' = "evaluate_single_condition"
    /\ ret' = [result |->
                  evaluate_single_condition(args.entry,
                                            args.condition.identifier,
                                            args.condition.operator,
                                            args.condition.value)]
    /\ UNCHANGED <<fs, readdir, pc, args, before, locals>>

NextLeaf == EvaluateSingleCondition

SpecLeaf == InitLeaf /\ [][NextLeaf]_vars

(***************************************************************************)
(* parse_query alone, on the pairs of one query.                           *)
(***************************************************************************)
\* the pairs of a comparison
Comparison(identifier, operator_rule, value_rule, value_text) ==
    Pair("comparison", <<>>,
         <<Pair("identifier", identifier, <<>>),
           Pair("operator", <<>>, <<Pair(operator_rule, <<>>, <<>>)>>),
           Pair(value_rule, value_text, <<>>)>>)

\* the pairs of the conditions: one comparison, two joined by AND or OR in
\* some letter case, and three with a condition in parentheses
ConditionPairs ==
    LET Primary(inner) == Pair("primary_condition", <<>>, <<inner>>)
        LogicalOp(text) == Pair("logical_op", text, <<>>)
        Comparisons ==
            {Comparison("ext", "EQUAL", "string", <<"\"", "t", "\"">>),
             Comparison("size", "GREATER", "number", <<"1", "k", "b">>)}
        LogicalTexts ==
            {<<"a", "n", "d">>, <<"A", "N", "D">>, <<"A", "n", "d">>,
             <<"o", "r">>, <<"O", "R">>, <<"O", "r">>}
        Two(a, text, b) ==
            Pair("condition", <<>>, <<Primary(a), LogicalOp(text), Primary(b)>>)
    IN  {Pair("condition", <<>>, <<Primary(a)>>) : a \in Comparisons}
        \cup {Two(a, text, b) : a \in Comparisons, text \in LogicalTexts,
                                b \in Comparisons}
        \cup {Pair("condition", <<>>,
                   <<Primary(a), LogicalOp(<<"o", "r">>),
                     Primary(Two(a, <<"a", "n", "d">>, b))>>) :
                 a \in Comparisons, b \in Comparisons}

\* zero or one clause of each kind that follows the first clause
ClausePairs ==
    LET From == {<<Pair("from_clause", <<>>, <<Pair("path", text, <<>>)>>)>> :
                    text \in {<<".">>, <<"\"", "/", "r", "\"">>}}
        Where == {<<>>} \cup {<<Pair("where_clause", <<>>, <<c>>)>> :
                                 c \in ConditionPairs}
        Limit == {<<>>}
                 \cup {<<Pair("limit_clause", <<>>,
                              <<Pair("number", text, <<>>)>>)>> :
                          text \in {<<"0">>, <<"2">>, <<"1", "2">>,
                                    <<"2", ".", "5">>}}
    IN  [from : From, where : Where, limit : Limit]

\* the pairs of the DELETE queries
DeleteQueryPairs ==
    LET Flag == {<<>>, <<Pair("recursive_flag", <<"R">>, <<>>)>>}
        Selector ==
            {<<Pair("FIRST", <<"F", "I", "R", "S", "T">>, <<>>)>>,
             <<Pair("MANY", <<"m", "a", "n", "y">>, <<>>)>>,
             <<Pair("MANY", <<"m", "a", "n", "y">>, <<>>),
               Pair("number", <<"3">>, <<>>)>>,
             <<Pair("selection", <<"*">>, <<>>)>>}
    IN  {<<Pair("delete_query", <<>>,
                <<Pair("delete_clause", <<>>,
                       flag \o <<Pair("delete_selection", <<>>, selector)>>)>>
                \o c.from \o c.where \o c.limit),
           Pair("EOI", <<>>, <<>>)>> :
            flag \in Flag, selector \in Selector, c \in ClausePairs}

\* the pairs of the SELECT queries
SelectQueryPairs ==
    LET Field(name) == Pair("field", name, <<>>)
        Selection ==
            {Pair("selection", <<"*">>, <<>>),
             Pair("selection", <<"n", "a", "m", "e">>,
                  <<Pair("field_list", <<"n", "a", "m", "e">>,
                         <<Field("name")>>)>>),
             Pair("selection", <<"f", "i", "l", "e", "s">>,
                  <<Pair("field_list", <<"f", "i", "l", "e", "s">>,
                         <<Field("files")>>)>>)}
        OrderBy ==
            {<<>>,
             <<Pair("order_by_clause", <<>>,
                    <<Pair("order_term", <<>>,
                           <<Field("name"),
                             Pair("order_direction", <<"D", "E", "S", "C">>,
                                  <<>>)>>),
                      Pair("order_term", <<>>, <<Field("size")>>)>>)>>}
    IN  {<<Pair("select_query", <<>>,
                <<Pair("select_clause", <<>>, <<selection>>)>>
                \o c.from \o c.where \o order_by \o c.limit),
           Pair("EOI", <<>>, <<>>)>> :
            selection \in Selection, order_by \in OrderBy, c \in ClausePairs}

InitParse ==
    /\ fs = Nodes
    /\ readdir = "asc"
    /\ pc = "idle"
    /\ op = "parse_input"
    /\ args \in [pairs : DeleteQueryPairs \cup SelectQueryPairs]
    /\ before = Nodes
    /\ ret = <<>>
    /\ entries_to_delete = <<>>
    /\ next_entry = 1
    /\ deleted_count = 0
    /\ failed_entries = <<>>

ParseQuery ==
    /\ op = "parse_input"
    /\ op' = "parse_query"
    /\ ret' = [ok |-> TRUE, query |-> parse_query(args.pairs)]
    /\ UNCHANGED <<fs, readdir, pc, args, before, locals>>

NextParse == ParseQuery

SpecParse == InitParse /\ [][NextParse]_vars

(***************************************************************************)
(* CLI::execute_query (src/src/cli.rs) on the texts of queries, and the    *)
(* listing calls where the platform can fail.                              *)
(***************************************************************************)
\* the pairs of the queries typed: DELETE and SELECT with FROM alone, of
\* everything or of fields
CliQueries ==
    {p \in DeleteQueryPairs \cup SelectQueryPairs :
        /\ \A i \in 1..Len(p[1].inner) :
              p[1].inner[i].rule \in
                  {"delete_clause", "select_clause", "from_clause"}
        /\ parse_query(p).selection.tag \in {"All", "Fields"}}

ListEntriesAt(meta, path, selection, condition, limit, recursive) ==
    /\ pc = "idle"
    /\ op' = "list_entries_at"
    /\ args' = [meta |-> meta, path |-> path, selection |-> selection,
                condition |-> condition, limit |-> limit,
                recursive |-> recursive]
    /\ before' = fs
    /\ ret' = [ok |-> normalize_path_ok(fs, path),
               entries |-> list_entries_at(meta, fs, readdir, path, selection,
                                           condition, limit, recursive)]
    /\ pc' = "returned"
    /\ UNCHANGED <<fs, readdir, locals>>

ExecuteQueryAt(meta, query, path, recursive) ==
    /\ pc = "idle"
    /\ op' = "execute_query_at"
    /\ args' = [meta |-> meta, query |-> query, path |-> path,
                recursive |-> recursive]
    /\ before' = fs
    /\ ret' = [ok |-> normalize_path_ok(fs, PathToSearch(query, path)),
               entries |-> execute_query_at(meta, fs, readdir, query, path,
                                            recursive)]
    /\ pc' = "returned"
    /\ UNCHANGED <<fs, readdir, locals>>

\* the caller executes the query it has just executed once more, at the
\* hour `now`
ExecuteQueryAgain(now) ==
    /\ pc = "returned"
    /\ op = "execute_query_at"
    /\ now >= args.meta.now
    /\ op' = "execute_query_again"
    /\ args' = [meta |-> args.meta, query |-> args.query, path |-> args.path,
                recursive |-> args.recursive,
                meta_again |-> [args.meta EXCEPT !.now = now]]
    /\ ret' = [ok |-> ret.ok, entries |-> ret.entries,
               ok_again |-> normalize_path_ok(fs, PathToSearch(args.query,
                                                               args.path)),
               entries_again |->
                   execute_query_at([args.meta EXCEPT !.now = now], fs,
                                    readdir, args.query, args.path,
                                    args.recursive)]
    /\ UNCHANGED <<fs, readdir, pc, before, locals>>

\* CLI::execute_query up to its return or to the loop of delete_entries;
\* self_recursive and self_dry_run are the options of the command line and
\* input is the line read at the confirmation
CliExecuteQuery(parsed, self_recursive, self_dry_run, input) ==
    /\ pc = "idle"
    /\ op' = "cli_execute_query"
    /\ before' = fs
    /\ UNCHANGED <<fs, readdir>>
    /\ LET parse_result == parse_query_str(parsed)
           query == parse_result.query
           path == query.path
           search_context == SearchContext(self_recursive)
           asks == query.is_recursive /\ ~self_dry_run
           entries ==
               list_entries(fs, readdir, PathToSearch(query, path),
                            query.selection, query.condition, query.limit,
                            DeleteRecursive(query, search_context))
           call == [parsed |-> parsed, self_recursive |-> self_recursive,
                    self_dry_run |-> self_dry_run, input |-> input]
       IN  IF ~parse_result.ok
           THEN /\ args' = call
                /\ ret' = [ok |-> FALSE, err |-> parse_result.err]
                /\ pc' = "returned"
                /\ NoLocals
           ELSE IF query.query_type = "Select"
           THEN /\ args' = [call EXCEPT !.input = <<>>]
                /\ ret' =
                      [ok |-> normalize_path_ok(fs, PathToSearch(query, path)),
                       displayed |->
                           execute_query(fs, readdir, query, path,
                                         search_context.recursive)]
                /\ pc' = "returned"
                /\ NoLocals
           ELSE IF asks /\ to_lowercase(Trim(input)) # <<"y">>
           THEN /\ args' = [query |-> query, asked |-> TRUE] @@ call
                /\ ret' = [ok |-> TRUE, cancelled |-> TRUE]
                /\ pc' = "returned"
                /\ NoLocals
           ELSE /\ args' =
                      [query |-> query, asked |-> asks,
                       path |-> PathToSearch(query, path),
                       selection |-> query.selection,
                       condition |-> query.condition, limit |-> query.limit,
                       recursive |-> DeleteRecursive(query, search_context),
                       dry_run |-> self_dry_run]
                      @@ [call EXCEPT !.input = IF asks THEN input ELSE <<>>]
                /\ IF ReturnsCandidates(entries, self_dry_run)
                   THEN /\ ret' =
                             [ok |-> normalize_path_ok(
                                         fs, PathToSearch(query, path)),
                              failed |-> entries, deleted_count |-> 0]
                        /\ pc' = "returned"
                        /\ NoLocals
                   ELSE /\ ret' = <<>>
                        /\ pc' = "delete_loop"
                        /\ entries_to_delete' = entries
                        /\ next_entry' = 1
                        /\ deleted_count' = 0
                        /\ failed_entries' = <<>>

NextCli ==
    \/ \E unreadable \in {{}, {3}, {2}, {3, 4}}, unwalkable \in {{}, {2}},
          condition \in {NoCondition,
                         Leaf("name", "NotEqual", VString(<<"b">>))},
          limit \in {NoLimit, SomeLimit(2)}, recursive \in BOOLEAN :
          ListEntriesAt([unreadable |-> unreadable,
                         unwalkable |-> unwalkable, birthtime |-> TRUE,
                         now |-> 473386],
                        PathOf(1), SelectAll, condition, limit, recursive)
    \/ \E birthtime \in BOOLEAN,
          condition \in
              {NoCondition,
               Leaf("created", "GreaterThan",
                    VString(<<"2", "0", "2", "4", "-", "0", "1", "-", "0",
                              "2">>))},
          order_by \in {<<>>, <<OrderTerm("created", "Descending")>>},
          recursive \in BOOLEAN :
          ExecuteQueryAt([unreadable |-> {}, unwalkable |-> {},
                          birthtime |-> birthtime, now |-> 473375],
                         Query("Select", SelectAll, PathOf(1), condition,
                               NoLimit, FALSE, order_by),
                         PathOf(1), recursive)
    \/ \E now \in {473375, 473386} : ExecuteQueryAgain(now)
    \/ \E parsed \in {[ok |-> TRUE, pairs |-> p, err |-> <<>>] :
                          p \in CliQueries}
                      \cup {[ok |-> FALSE, pairs |-> <<>>,
                             err |-> <<"expected query">>]},
          self_recursive \in BOOLEAN, self_dry_run \in BOOLEAN,
          input \in {<<"y", "\n">>, <<"Y", "\n">>, <<"n", "\n">>,
                     <<"\n">>} :
          CliExecuteQuery(parsed, self_recursive, self_dry_run, input)
    \/ DeleteStep
    \/ DeleteReturn
    \/ Finish

SpecCli == Init /\ [][NextCli]_vars

(***************************************************************************)
(* Properties of delete_entries.                                           *)
(***************************************************************************)
\* the candidates of the last call, listed on the filesystem it was called on
Candidates ==
    list_entries(before, readdir, args.path, args.selection, args.condition,
                 args.limit, args.recursive)

CandidateNodes == {Lookup(Candidates[i].path) : i \in 1..Len(Candidates)}

DeleteReturned == op = "delete_entries" /\ pc = "returned"

\* C1: a delete_entries call with dry_run = true removes no entry, returns
\* deleted_count = 0 and returns exactly the list that list_entries gives for
\* the same path, selection, condition, limit and recursive, in that order.
C1_DryRunLeavesDisk ==
    /\ (op = "delete_entries" /\ args.dry_run) => fs = before /\ pc = "returned"
    /\ (DeleteReturned /\ args.dry_run) =>
          /\ ret.deleted_count = 0
          /\ ret.failed = Candidates

C1_Witness ==
    /\ DeleteReturned
    /\ args.dry_run
    /\ args.recursive
    /\ Len(ret.failed) >= 2
    /\ \E i \in 1..Len(ret.failed) : ret.failed[i].is_dir

\* the candidate directories that hold an entry when the call starts
NonEmptyCandidates ==
    {i \in 1..Len(Candidates) :
        /\ Candidates[i].is_dir
        /\ read_dir(before, readdir, Lookup(Candidates[i].path)) # <<>>}

\* C2: after a delete_entries call with recursive = false and dry_run =
\* false, every candidate directory that was not empty still exists, is in
\* the failed list under the DirectoryNotEmpty message, and is not counted.
C2_NonEmptyDirClassified ==
    (DeleteReturned /\ ~args.recursive /\ ~args.dry_run) =>
        /\ \A i \in NonEmptyCandidates :
              /\ Lookup(Candidates[i].path) \in fs
              /\ \E j \in 1..Len(ret.failed) :
                    ret.failed[j] =
                        FailedEntry(Candidates[i],
                                    IoErr("DirectoryNotEmpty", <<>>))
        /\ ret.deleted_count <= Len(Candidates) - Cardinality(NonEmptyCandidates)

\* the candidates that have no candidate above them
TopLevelCandidates ==
    {n \in CandidateNodes : ~\E a \in CandidateNodes : IsAncestor(a, n)}

\* C3: after a delete_entries call with recursive = true and dry_run = false
\* every candidate directory is gone with everything below it, and
\* deleted_count is the number of candidates that have no candidate above
\* them: what goes with its parent is not counted.
C3_RecursiveDelete ==
    (DeleteReturned /\ args.recursive /\ ~args.dry_run) =>
        /\ \A i \in 1..Len(Candidates) :
              Candidates[i].is_dir =>
                  Subtree(Lookup(Candidates[i].path)) \cap fs = {}
        /\ ret.deleted_count = Cardinality(TopLevelCandidates)

C3_Witness ==
    /\ DeleteReturned
    /\ args.recursive
    /\ ~args.dry_run
    /\ ret.deleted_count >= 1
    /\ fs # {}
    /\ \E a \in CandidateNodes, n \in CandidateNodes : IsAncestor(a, n)
    /\ \E a \in CandidateNodes :
          \E n \in before \ CandidateNodes : IsAncestor(a, n)

\* one pass of the loop takes the next candidate and either counts it, the
\* entry being gone, or appends it to failed, the filesystem being as before
OnePass ==
    (pc = "delete_loop" /\ pc' = "delete_loop") =>
        /\ next_entry <= Len(entries_to_delete)
        /\ next_entry' = next_entry + 1
        /\ entries_to_delete' = entries_to_delete
        /\ fs' \subseteq fs
        /\ LET entry == entries_to_delete[next_entry]
           IN  \/ /\ deleted_count' = deleted_count + 1
                  /\ failed_entries' = failed_entries
                  /\ Lookup(entry.path) \in fs
                  /\ Lookup(entry.path) \notin fs'
               \/ /\ deleted_count' = deleted_count
                  /\ Len(failed_entries') = Len(failed_entries) + 1
                  /\ SubSeq(failed_entries', 1, Len(failed_entries))
                        = failed_entries
                  /\ failed_entries'[Len(failed_entries')].path = entry.path
                  /\ fs' = fs

\* the loop runs over the listing made before the first removal
LoopOverListing ==
    pc = "delete_loop" =>
        /\ entries_to_delete = Candidates
        /\ deleted_count + Len(failed_entries) = next_entry - 1

AllAttempted ==
    (DeleteReturned /\ ~args.dry_run) =>
        ret.deleted_count + Len(ret.failed) = Len(Candidates)

\* the loop is left only past the last candidate
LeftAtEnd ==
    (pc = "delete_loop" /\ pc' # "delete_loop") =>
        /\ next_entry = Len(entries_to_delete) + 1
        /\ pc' = "returned"
        /\ ret' = [ok |-> TRUE, failed |-> failed_entries,
               deleted_count |-> deleted_count]

\* C4: a delete_entries call that is not a dry run takes every candidate of
\* the listing made before the first removal once, in listing order,
\* whatever became of the earlier ones; each one is counted or appended to
\* failed; deleted_count + len(failed) is the number of candidates on return;
\* a failure neither ends the call nor brings back what was removed.
C4_WholeBatch ==
    /\ [](LoopOverListing /\ AllAttempted)
    /\ [][OnePass /\ LeftAtEnd]_vars

C4_Witness ==
    /\ DeleteReturned
    /\ ~args.dry_run
    /\ Len(ret.failed) >= 1
    /\ ret.deleted_count >= 2
    /\ ret.failed[1].path = Candidates[1].path

\* C27: a delete_entries call with recursive = false and dry_run = false
\* removes only candidates: every entry that is not a candidate, and every
\* candidate directory that was not empty with all it holds, is still
\* there after the call; with either recursive flag every candidate file is
\* gone after a call that is not a dry run.
C27_OnlyCandidatesRemoved ==
    /\ (op = "delete_entries" /\ ~args.recursive /\ ~args.dry_run) =>
          /\ before \ fs \subseteq CandidateNodes
          /\ \A i \in NonEmptyCandidates :
                Subtree(Lookup(Candidates[i].path)) \cap before \subseteq fs
    /\ (DeleteReturned /\ ~args.dry_run) =>
          \A i \in 1..Len(Candidates) :
              Candidates[i].is_file => Lookup(Candidates[i].path) \notin fs

C27_Witness ==
    /\ DeleteReturned
    /\ ~args.recursive
    /\ ~args.dry_run
    /\ NonEmptyCandidates # {}
    /\ \E i \in 1..Len(Candidates) :
          Candidates[i].is_file /\ Lookup(Candidates[i].path) \notin fs
    /\ \E i \in 1..Len(Candidates) :
          /\ Candidates[i].is_dir
          /\ i \notin NonEmptyCandidates
          /\ Lookup(Candidates[i].path) \notin fs
    /\ \E n \in fs \ CandidateNodes : Parent[n] \in CandidateNodes

(***************************************************************************)
(* Properties of list_entries and execute_query.                           *)
(***************************************************************************)
\* the result of the last list_entries call had it been given no limit
Unlimited ==
    list_entries(before, readdir, args.path, args.selection, args.condition,
                 NoLimit, args.recursive)

\* C5: list_entries with limit = Some(N) returns at most N entries, none
\* when N = 0, and what limit = None returns when N is at least the number
\* of matching entries.
C5_Limit ==
    (op = "list_entries" /\ args.limit.some) =>
        /\ Len(ret.entries) <= args.limit.val
        /\ args.limit.val = 0 => ret.entries = <<>>
        /\ args.limit.val >= Len(Unlimited) => ret.entries = Unlimited
        /\ ret.entries = SubSeq(Unlimited, 1, Len(ret.entries))

C5_Witness ==
    /\ op = "list_entries"
    /\ args.limit.some
    /\ args.limit.val >= 1
    /\ Len(Unlimited) > args.limit.val
    /\ Len(ret.entries) = args.limit.val

C5_WitnessUnchanged ==
    /\ op = "list_entries"
    /\ args.limit.some
    /\ Len(Unlimited) >= 2
    /\ args.limit.val > Len(Unlimited)
    /\ ret.entries = Unlimited

\* the entries the last list_entries call walked, in traversal order, and
\* those of them that satisfy its condition
Traversed ==
    list_entries(before, readdir, args.path, args.selection, NoCondition,
                 NoLimit, args.recursive)

Matching ==
    SelectSeq(Traversed, LAMBDA e : matches_condition(e, args.condition))

\* C26: list_entries with condition C and limit N returns the first
\* min(N, number of matches) of the entries that satisfy C, in traversal
\* order: every returned entry satisfies C and no entry that does not
\* satisfy it takes the place of one that does.
C26_LimitAfterFilter ==
    (op = "list_entries" /\ ret.ok /\ args.limit.some) =>
        /\ \A i \in 1..Len(ret.entries) :
              matches_condition(ret.entries[i], args.condition)
        /\ ret.entries =
              SubSeq(Matching, 1,
                     IF args.limit.val < Len(Matching) THEN args.limit.val
                     ELSE Len(Matching))

C26_Witness ==
    /\ op = "list_entries"
    /\ args.limit = SomeLimit(2)
    /\ Len(Matching) > 2
    /\ Len(Traversed) > Len(Matching)
    /\ ~matches_condition(Traversed[1], args.condition)
    /\ Len(ret.entries) = 2
    /\ ret.entries[2] = Matching[2]
    /\ ret.ok

\* C6: execute_query with a non-empty order_by and limit = Some(N) returns
\* the first N entries of the sorted list of all matching entries.
C6_SortThenLimit ==
    (op = "execute_query" /\ args.query.order_by # <<>>
        /\ args.query.limit.some) =>
        ret.entries =
            ApplyLimit(sort_entries(
                           list_entries(before, readdir,
                                        PathToSearch(args.query, args.path),
                                        args.query.selection,
                                        args.query.condition, NoLimit,
                                        args.recursive),
                           args.query.order_by),
                       args.query.limit)

\* the entries of the last call's result, or its candidates
Listed ==
    CASE op \in {"list_entries", "execute_query"} /\ pc = "returned" ->
            ret.entries
      [] op \in {"delete_entries", "execute_delete_query"} -> Candidates
      [] OTHER -> <<>>

\* the path the last call was asked to list
ListedRoot ==
    IF op = "execute_query"
    THEN normalize_path(PathToSearch(args.query, args.path))
    ELSE normalize_path(args.path)

\* C11: list_entries never returns the entry of the root path it was asked
\* to list, whether recursive is false or true, and no delete has the root
\* among its candidates.
C11_RootNeverListed ==
    \A i \in 1..Len(Listed) : Listed[i].path # ListedRoot

\* C12: list_entries, execute_query and delete_entries, called with a path
\* that does not exist, return an error and not an Ok result.
C12_PathNotFound ==
    (/\ pc = "returned"
     /\ op \in {"list_entries", "execute_query", "delete_entries"}
     /\ ~PathExists(before, ListedRoot)) => ~ret.ok

\* C17: with the caller's recursive flag false, the candidates of
\* execute_delete_query are the entries at depth 1 of the path, whether or
\* not query.is_recursive is set.
C17_DepthIndependent ==
    (op = "execute_delete_query" /\ ~args.context.recursive) =>
        \A i \in 1..Len(Candidates) :
            Parent[Lookup(Candidates[i].path)] = Lookup(ListedRoot)

\* C13: the selection is a kind filter: All and Fields(_) include every
\* entry, Files exactly the entries with is_file, Directories exactly the
\* entries with is_dir.
C13_KindFilter ==
    op = "include" =>
        /\ args.selection.tag \in {"All", "Fields"} => ret.include
        /\ args.selection.tag = "Files" =>
              ret.include = args.entry.is_file
        /\ args.selection.tag = "Directories" =>
              ret.include = args.entry.is_dir

(***************************************************************************)
(* Properties of the command line and of the calls on a failing platform.  *)
(***************************************************************************)
CliCalled == op = "cli_execute_query"

\* C23: when parse_query returns Err for the text, CLI::execute_query
\* returns that error, and it lists nothing, asks nothing and deletes
\* nothing: the filesystem is as it was, and the call is over.
C23_ParseErrorStops ==
    /\ []((CliCalled /\ ~args.parsed.ok) =>
            /\ pc = "returned"
            /\ ret = [ok |-> FALSE,
                      err |-> <<"Parse error: ">> \o args.parsed.err]
            /\ DOMAIN args = {"parsed", "self_recursive", "self_dry_run",
                              "input"}
            /\ entries_to_delete = <<>>
            /\ fs = before)
    /\ [][(CliCalled /\ ~args.parsed.ok) => (fs' = fs /\ pc' = "idle")]_vars

C23_Witness ==
    /\ CliCalled
    /\ ~args.parsed.ok
    /\ ~ret.ok
    /\ fs # Nodes
    /\ \E n \in fs : NodeKind[n] = "file"

\* a DELETE of the command line that reached execute_delete_query
DeleteRuns == CliCalled /\ args.parsed.ok /\ "dry_run" \in DOMAIN args

\* C28: in CLI::execute_query every DELETE that is not a dry run and runs
\* with query.is_recursive or the recursive option of the caller set comes
\* after the warning and a confirmation answered y, and when the answer is
\* anything else nothing is removed.
C28_RecursiveDeleteConfirmed ==
    /\ (/\ DeleteRuns
        /\ ~args.self_dry_run
        /\ (args.query.is_recursive \/ args.self_recursive)) =>
          /\ args.asked
          /\ Trim(args.input) \in {<<"y">>, <<"Y">>}
    /\ (/\ CliCalled
        /\ args.parsed.ok
        /\ "asked" \in DOMAIN args
        /\ args.asked
        /\ Trim(args.input) \notin {<<"y">>, <<"Y">>}) =>
          fs = before /\ pc = "returned"

\* C24: two executions of execute_query with the same query and arguments
\* on the same filesystem return the same entries with the same field
\* values in the same order.
C24_Deterministic ==
    op = "execute_query_again" =>
        /\ ret.ok_again = ret.ok
        /\ ret.entries_again = ret.entries

\* the entries of the last list_entries_at call that it can reach, none of
\* the directories above them being unwalkable, and whose metadata it can
\* read
Readable ==
    SelectSeq(Traversed,
              LAMBDA e :
                  /\ Lookup(e.path) \notin args.meta.unreadable
                  /\ \A a \in args.meta.unwalkable :
                        ~IsAncestor(a, Lookup(e.path)))

ReadableMatching ==
    SelectSeq(Readable, LAMBDA e : matches_condition(e, args.condition))

\* C25: list_entries leaves out exactly the entries whose metadata cannot
\* be read and goes on after a directory it cannot walk: the call is Ok
\* and returns what the condition and the limit keep of all other entries
\* it can reach, which is what it returns when the failing entries,
\* holding nothing, do not exist.
C25_FailingEntrySkipped ==
    op = "list_entries_at" =>
        /\ ret.ok
        /\ ret.entries =
              SubSeq(ReadableMatching, 1,
                     IF args.limit.some /\ args.limit.val < Len(ReadableMatching)
                     THEN args.limit.val
                     ELSE Len(ReadableMatching))
        /\ (/\ args.meta.unwalkable = {}
            /\ \A n \in before : Parent[n] \notin args.meta.unreadable) =>
              ret.entries =
                  list_entries(before \ args.meta.unreadable, readdir,
                               args.path, args.selection, args.condition,
                               args.limit, args.recursive)

C25_Witness ==
    /\ op = "list_entries_at"
    /\ args.meta.unreadable = {3, 4}
    /\ args.meta.unwalkable = {2}
    /\ {2, 3, 4, 5} \subseteq before
    /\ args.recursive
    /\ args.limit = SomeLimit(2)
    /\ Len(ret.entries) = 2
    /\ \E i \in 1..Len(Traversed) :
          /\ Lookup(Traversed[i].path) \in args.meta.unreadable
          /\ \E j \in (i + 1)..Len(Traversed) :
                Traversed[j] = ret.entries[2]

(***************************************************************************)
(* Properties of the leaf conditions.                                      *)
(***************************************************************************)
Evaluated == op = "evaluate_single_condition"

\* whether the operator holds of a sign
Holds(operator, sign) ==
    CASE operator = "Equal" -> sign = 0
      [] operator = "NotEqual" -> sign # 0
      [] operator = "LessThan" -> sign < 0
      [] operator = "LessOrEqual" -> sign <= 0
      [] operator = "GreaterThan" -> sign > 0
      [] operator = "GreaterOrEqual" -> sign >= 0
      [] OTHER -> FALSE

\* the sign of size - (n / d) * multiple
SignAgainst(size, n, d, multiple) ==
    LET whole == (n * multiple) \div d
    IN  IF size > whole THEN 1
        ELSE IF size < whole THEN 0 - 1
        ELSE IF (n * multiple) % d # 0 THEN 0 - 1
        ELSE 0

\* the sign of size - (n / d) * unit, the unit in any letter case; a
\* terabyte is above every size of LeafEntries
SignAgainstUnit(size, n, d, unit) ==
    CASE unit \in {<<"b">>, <<"B">>} -> SignAgainst(size, n, d, 1)
      [] unit \in {<<"k", "b">>, <<"K", "B">>, <<"K", "b">>} ->
            SignAgainst(size, n, d, 1024)
      [] unit \in {<<"m", "b">>, <<"M", "B">>} ->
            SignAgainst(size, n, d, 1048576)
      [] unit \in {<<"g", "b">>, <<"G", "b">>} ->
            SignAgainst(size, n, d, 1073741824)
      [] unit \in {<<"t", "b">>, <<"T", "B">>} ->
            IF n > 0 THEN 0 - 1 ELSE SignAgainst(size, 0, 1, 1)
      [] OTHER -> SignAgainst(size, n, d, 1)

SizeLeaf(operator, value) == Leaf("size", operator, value)

\* C18: a size comparison against SizedNumber(n, unit) compares the size
\* with n times the binary multiple of the unit (b 1, kb 1024, mb 1024^2,
\* gb 1024^3, tb 1024^4), in any letter case, an unknown unit being raw
\* bytes; an entry of 1024 bytes matches size > 500 and size > 0.5kb and
\* matches neither size > 2000 nor size > 2kb.
C18_SizedNumber ==
    Evaluated =>
        /\ (/\ args.condition.identifier = "size"
            /\ args.condition.value.kind = "SizedNumber") =>
              ret.result =
                  Holds(args.condition.operator,
                        SignAgainstUnit(args.entry.size,
                                        args.condition.value.n,
                                        args.condition.value.d,
                                        args.condition.value.unit))
        /\ args.entry.size = 1024 =>
              /\ args.condition = SizeLeaf("GreaterThan", VNumber(500))
                    => ret.result
              /\ args.condition =
                    SizeLeaf("GreaterThan", VSizedNumber(1, 2, <<"k", "b">>))
                    => ret.result
              /\ args.condition = SizeLeaf("GreaterThan", VNumber(2000))
                    => ~ret.result
              /\ args.condition =
                    SizeLeaf("GreaterThan", VSizedNumber(2, 1, <<"k", "b">>))
                    => ~ret.result

C18_Witness ==
    /\ Evaluated
    /\ args.entry.size = 1024
    /\ args.condition =
          SizeLeaf("GreaterOrEqual", VSizedNumber(1, 1, <<"K", "B">>))
    /\ ret.result

TypeLeaf(s) == Leaf("type", "Equal", VString(s))

\* C19: type = "file" matches exactly the entries with is_file and
\* type = "dir" exactly the entries with is_dir, so an entry that is neither
\* matches neither condition.
C19_TypeByKind ==
    Evaluated =>
        /\ args.condition = TypeLeaf(<<"f", "i", "l", "e">>) =>
              ret.result = args.entry.is_file
        /\ args.condition = TypeLeaf(<<"d", "i", "r">>) =>
              ret.result = args.entry.is_dir

\* C19 as the code has it: type = "dir" matches exactly the entries with
\* is_dir and type = "file" exactly the entries without is_dir, so an entry
\* that is neither a file nor a directory matches type = "file" and not
\* type = "dir".
C19_TypeByIsDir ==
    Evaluated =>
        /\ args.condition = TypeLeaf(<<"f", "i", "l", "e">>) =>
              ret.result = ~args.entry.is_dir
        /\ args.condition = TypeLeaf(<<"d", "i", "r">>) =>
              ret.result = args.entry.is_dir

C19_Witness ==
    /\ Evaluated
    /\ ~args.entry.is_dir
    /\ ~args.entry.is_file
    /\ args.condition = TypeLeaf(<<"f", "i", "l", "e">>)
    /\ ret.result

\* C20: for an entry without an extension every leaf on ext is no match,
\* whatever the operator and the value, NotEqual included.
C20_AbsentExt ==
    (/\ Evaluated
     /\ args.condition.identifier = "ext"
     /\ ~args.entry.extension.some) => ~ret.result

C20_Witness ==
    /\ Evaluated
    /\ ~args.entry.extension.some
    /\ args.condition = Leaf("ext", "NotEqual", VString(<<"t">>))
    /\ ~ret.result

\* whether the entry of the state matches the leaf of the state with
\* another operator in its place
MatchesWith(operator) ==
    evaluate_single_condition(args.entry, args.condition.identifier, operator,
                              args.condition.value)

\* C29: for modified and created and a valid YYYY-MM-DD value d, an entry
\* matches field <= d exactly when it matches field < d or field = d, and
\* field >= d exactly when it matches field > d or field = d.
C29_DateOrdering ==
    (/\ Evaluated
     /\ args.condition.identifier \in {"modified", "created"}
     /\ args.condition.value \in
            {VString(<<"2", "0", "2", "4", "-", "0", "1", "-", "0", "2">>),
             VString(<<"2", "0", "2", "4", "-", "0", "1", "-", "0", "1">>)}) =>
        /\ args.condition.operator = "LessOrEqual" =>
              ret.result = (MatchesWith("LessThan") \/ MatchesWith("Equal"))
        /\ args.condition.operator = "GreaterOrEqual" =>
              ret.result = (MatchesWith("GreaterThan") \/ MatchesWith("Equal"))

\* the kinds of value and the operators each field takes
FieldKinds ==
    [name |-> {"String"}, path |-> {"String"}, ext |-> {"String"},
     type |-> {"String"}, modified |-> {"String"}, created |-> {"String"},
     size |-> {"Number", "SizedNumber"},
     is_hidden |-> {"Bool"}, is_readonly |-> {"Bool"}]

FieldOperators ==
    LET Text == {"Equal", "NotEqual", "Like", "Contains"}
        Ordered == {"Equal", "NotEqual", "LessThan", "LessOrEqual",
                    "GreaterThan", "GreaterOrEqual"}
    IN  [name |-> Text, path |-> Text, ext |-> Text, type |-> Text,
         modified |-> Ordered, created |-> Ordered, size |-> Ordered,
         is_hidden |-> {"Equal", "NotEqual"},
         is_readonly |-> {"Equal", "NotEqual"}]

\* the leaf has an unknown identifier, a value of the wrong kind for its
\* field or an operator that is invalid for its field
InvalidLeaf(leaf) ==
    \/ leaf.identifier \notin DOMAIN FieldKinds \cup {"permissions"}
    \/ /\ leaf.identifier \in DOMAIN FieldKinds
       /\ \/ leaf.value.kind \notin FieldKinds[leaf.identifier]
          \/ leaf.operator \notin FieldOperators[leaf.identifier]

\* C21: a leaf with an unknown identifier, a value of the wrong kind or an
\* invalid operator evaluates to false, and in a condition around it only
\* that leaf matches nothing: joined by Or with another leaf the condition
\* matches as the other leaf does, joined by And it matches nothing.
C21_InvalidLeafIsFalse ==
    (Evaluated /\ InvalidLeaf(args.condition)) =>
        /\ ret.result = FALSE
        /\ \A other \in MatchLeaves :
              /\ matches_condition(args.entry,
                                   Branch(args.condition, "Or", other))
                 = matches_condition(args.entry, other)
              /\ matches_condition(args.entry,
                                   Branch(other, "Or", args.condition))
                 = matches_condition(args.entry, other)
              /\ ~matches_condition(args.entry,
                                    Branch(args.condition, "And", other))

C21_Witness ==
    /\ Evaluated
    /\ args.condition = Leaf("name", "LessThan", VString(<<"a", "*">>))
    /\ InvalidLeaf(args.condition)
    /\ args.entry.name = <<"a", ".", "t">>
    /\ ret.result = FALSE
    /\ matches_condition(args.entry,
                         Branch(args.condition, "Or",
                                Leaf("size", "GreaterThan", VNumber(1))))

RECURSIVE GlobMatch(_, _)
\* the whole of field matches the glob: * is any sequence of characters, ?
\* is one character and any other character is itself
GlobMatch(pattern, field) ==
    IF pattern = <<>> THEN field = <<>>
    ELSE IF Head(pattern) = "*"
    THEN \E k \in 0..Len(field) :
             GlobMatch(Tail(pattern), SubSeq(field, k + 1, Len(field)))
    ELSE /\ field # <<>>
         /\ (Head(pattern) = "?" \/ Head(pattern) = Head(field))
         /\ GlobMatch(Tail(pattern), Tail(field))

\* the string field of the entry of the state that the leaf names
StringField ==
    CASE args.condition.identifier = "name" -> Some(args.entry.name)
      [] args.condition.identifier = "path" -> Some(args.entry.path)
      [] args.condition.identifier = "ext" -> args.entry.extension
      [] args.condition.identifier = "permissions" ->
            Some(args.entry.permissions)

\* C30: on name, path, ext and permissions a LIKE pattern matches only when
\* the whole field matches the glob; a pattern without * or ? matches
\* exactly the fields equal to it, and a pattern that cannot be compiled
\* matches no entry.
C30_LikeGlob ==
    (/\ Evaluated
     /\ args.condition.identifier \in {"name", "path", "ext", "permissions"}
     /\ args.condition.operator = "Like"
     /\ args.condition.value.kind = "String") =>
        LET pattern == args.condition.value.s
        IN  /\ ret.result =>
                  StringField.some /\ GlobMatch(pattern, StringField.val)
            /\ (\A i \in 1..Len(pattern) : pattern[i] \notin {"*", "?"}) =>
                  IF RegexCompiles(pattern)
                  THEN ret.result = (StringField = Some(pattern))
                  ELSE ~ret.result

(***************************************************************************)
(* Properties of the parser.                                               *)
(***************************************************************************)
Parsed == op = "parse_query"

\* the clauses of the query that was parsed, and those of a given rule
Clauses == args.pairs[1].inner
ClausesOf(rule) == SelectSeq(Clauses, LAMBDA p : p.rule = rule)

\* the selector of a DELETE query: the pairs after DELETE [RECURSIVE]
Selector ==
    LET clause == Head(ClausesOf("delete_clause")).inner
    IN  clause[Len(clause)].inner

SelectorHas(rule) ==
    /\ args.pairs[1].rule = "delete_query"
    /\ \E i \in 1..Len(Selector) : Selector[i].rule = rule

\* the number written in the LIMIT clause
LimitText == Head(ClausesOf("limit_clause")).inner[1].text

\* the unsigned integers written in the queries
Written(text) ==
    CASE text = <<"0">> -> SomeLimit(0)
      [] text = <<"2">> -> SomeLimit(2)
      [] text = <<"3">> -> SomeLimit(3)
      [] text = <<"1", "2">> -> SomeLimit(12)
      [] OTHER -> NoLimit

\* C14: a parsed DELETE FIRST query has limit Some(1) without a LIMIT
\* clause, and Some(n) with an explicit LIMIT n, which overrides the 1.
C14_DeleteFirst ==
    (Parsed /\ SelectorHas("FIRST")) =>
        IF ClausesOf("limit_clause") = <<>>
        THEN ret.query.limit = SomeLimit(1)
        ELSE Written(LimitText).some => ret.query.limit = Written(LimitText)

\* C15: a parsed DELETE MANY query without a number has limit None, or the
\* number of its LIMIT clause when it has one; DELETE MANY n has limit
\* Some(n).
C15_DeleteMany ==
    (Parsed /\ SelectorHas("MANY")) =>
        IF SelectorHas("number")
        THEN ret.query.limit = Written(Selector[2].text)
        ELSE IF ClausesOf("limit_clause") = <<>>
        THEN ret.query.limit = NoLimit
        ELSE /\ ret.query.limit.some
             /\ Written(LimitText).some =>
                    ret.query.limit = Written(LimitText)

C15_Witness ==
    /\ Parsed
    /\ SelectorHas("MANY")
    /\ ~SelectorHas("number")
    /\ ClausesOf("limit_clause") # <<>>
    /\ LimitText = <<"1", "2">>
    /\ ret.query.limit = SomeLimit(12)
    /\ ret.query.query_type = "Delete"

\* the pairs of the condition of the WHERE clause
WherePairs == Head(ClausesOf("where_clause")).inner[1].inner

\* C16: two comparisons joined by OR in any letter case parse to a Branch
\* with Or, and joined by AND in any letter case to a Branch with And.
C16_KeywordCase ==
    (/\ Parsed
     /\ ClausesOf("where_clause") # <<>>
     /\ Len(WherePairs) = 3
     /\ WherePairs[3].inner[1].rule = "comparison") =>
        /\ ret.query.condition.tag = "Branch"
        /\ WherePairs[2].text \in {<<"o", "r">>, <<"O", "R">>, <<"O", "r">>}
              => ret.query.condition.operator = "Or"
        /\ WherePairs[2].text \in
              {<<"a", "n", "d">>, <<"A", "N", "D">>, <<"A", "n", "d">>}
              => ret.query.condition.operator = "And"

\* C22: a query whose LIMIT clause has a number that is not an unsigned
\* integer still parses to Ok, and its limit is Some(100).
C22_UnparseableLimit ==
    (/\ Parsed
     /\ ClausesOf("limit_clause") # <<>>
     /\ LimitText = <<"2", ".", "5">>) =>
        /\ ret.ok
        /\ ret.query.limit = SomeLimit(100)

(***************************************************************************)
(* Properties of sort_entries.                                             *)
(***************************************************************************)
\* the first term of order_by on which a and b compare unequal, or 0
FirstDiffering(order_by, a, b) ==
    IF \E k \in 1..Len(order_by) : FieldOrdering(order_by[k].field, a, b) # 0
    THEN CHOOSE k \in 1..Len(order_by) :
            /\ FieldOrdering(order_by[k].field, a, b) # 0
            /\ \A h \in 1..(k - 1) : FieldOrdering(order_by[h].field, a, b) = 0
    ELSE 0

\* a may stand before b: the first differing term puts a first
InOrder(order_by, a, b) ==
    LET k == FirstDiffering(order_by, a, b)
    IN  k # 0 =>
            IF order_by[k].direction = "Descending"
            THEN FieldOrdering(order_by[k].field, a, b) = 1
            ELSE FieldOrdering(order_by[k].field, a, b) = -1

\* the entries of s that equal e on every term, in their order in s
TiedWith(s, order_by, e) ==
    LET Tied(z) == FirstDiffering(order_by, z, e) = 0
    IN  SelectSeq(s, Tied)

Occurrences(s, e) == Cardinality({i \in 1..Len(s) : s[i] = e})

\* C7: sort_entries orders by the terms of order_by in turn: of two entries
\* the first term on which they compare unequal decides, reversed for a
\* Descending term; entries equal on every term keep their input order; the
\* output is a permutation of the input.
C7_StableMultiKey ==
    op = "sort_entries" =>
        /\ Len(ret.entries) = Len(args.entries)
        /\ \A e \in AllEntries :
              Occurrences(ret.entries, e) = Occurrences(args.entries, e)
        /\ \A i \in 1..Len(ret.entries) : \A j \in (i + 1)..Len(ret.entries) :
              InOrder(args.order_by, ret.entries[i], ret.entries[j])
        /\ \A i \in 1..Len(args.entries) :
              TiedWith(ret.entries, args.order_by, args.entries[i])
                  = TiedWith(args.entries, args.order_by, args.entries[i])

C7_Witness ==
    /\ op = "sort_entries"
    /\ Len(args.order_by) = 2
    /\ args.order_by[1].direction = "Descending"
    /\ ret.entries # args.entries
    /\ \E i \in 1..Len(ret.entries) : \E j \in (i + 1)..Len(ret.entries) :
          /\ ret.entries[i] # ret.entries[j]
          /\ FirstDiffering(args.order_by, ret.entries[i], ret.entries[j]) = 0
    /\ \E i \in 1..Len(ret.entries) : \E j \in (i + 1)..Len(ret.entries) :
          FirstDiffering(args.order_by, ret.entries[i], ret.entries[j]) = 2

DirsFirstByName ==
    <<OrderTerm("is_dir", "Descending"), OrderTerm("name", "Ascending")>>

\* C8: sorting by [(is_dir, Descending), (name, Ascending)] puts every
\* directory before every file, the directories in ascending name order and
\* the files in ascending name order.
C8_DirsBeforeFiles ==
    (op = "sort_entries" /\ args.order_by = DirsFirstByName) =>
        \A i \in 1..Len(ret.entries) : \A j \in (i + 1)..Len(ret.entries) :
            LET a == ret.entries[i]
                b == ret.entries[j]
            IN  /\ ~(~a.is_dir /\ b.is_dir)
                /\ a.is_dir = b.is_dir => compare_strings(a.name, b.name) <= 0

\* C9: sort_entries is idempotent: sorting the sorted list by the same
\* order_by gives the sorted list.
C9_Idempotent == op = "sort_again" => ret.entries = ret.first

C9_Witness ==
    /\ op = "sort_again"
    /\ ret.first # args.entries
    /\ \E i \in 1..Len(ret.first) : \E j \in (i + 1)..Len(ret.first) :
          /\ ret.first[i] # ret.first[j]
          /\ FirstDiffering(args.order_by, ret.first[i], ret.first[j]) = 0

(***************************************************************************)
(* Properties of the condition evaluator.                                  *)
(***************************************************************************)
RECURSIVE SubNodes(_)
\* a condition tree and every tree inside it
SubNodes(node) ==
    IF node.tag = "Branch"
    THEN {node} \cup SubNodes(node.left) \cup SubNodes(node.right)
    ELSE {node}

\* the law of a branch
BranchLaw(entry, node, result) ==
    node.tag = "Branch" =>
        /\ node.operator = "And" =>
              result = (evaluate_condition_node(entry, node.left)
                        /\ evaluate_condition_node(entry, node.right))
        /\ node.operator = "Or" =>
              result = (evaluate_condition_node(entry, node.left)
                        \/ evaluate_condition_node(entry, node.right))

\* C10: a Branch with And matches exactly when both sides match, a Branch
\* with Or exactly when one side matches, at every depth of the tree, and
\* no condition matches every entry.
C10_BranchLaws ==
    op = "matches_condition" =>
        /\ args.condition.tag = "None" => ret.result = TRUE
        /\ args.condition.tag # "None" =>
              /\ BranchLaw(args.entry, args.condition, ret.result)
              /\ \A node \in SubNodes(args.condition) :
                    BranchLaw(args.entry, node,
                              evaluate_condition_node(args.entry, node))

C10_Witness ==
    /\ op = "matches_condition"
    /\ args.condition.tag = "Branch"
    /\ args.condition.operator = "Or"
    /\ args.condition.left.tag = "Branch"
    /\ args.condition.left.operator = "And"
    /\ ret.result = TRUE
    /\ ~evaluate_condition_node(args.entry, args.condition.left)

====
